---------------------------- MODULE Spec2Model ----------------------------
(***************************************************************************)
(* safe-push: the push safety decision engine (checker.ts, git.ts), the    *)
(* CLI push and check commands, the MCP push tool and index.ts's exit      *)
(* mapping, as one state machine per invocation.                           *)
(*                                                                         *)
(* Strings whose content the code inspects (emails, paths, patterns,       *)
(* visibility tokens, input lines) are sequences of one-character strings, *)
(* so that toLowerCase, trim, startsWith and the glob-to-regex conversion  *)
(* are computed, not assumed.  Fixed message texts are TLA+ strings.       *)
(***************************************************************************)
EXTENDS Integers, Sequences, FiniteSets, TLC

(***************************************************************************)
(* String literals used as inputs.                                         *)
(***************************************************************************)
AuthorA ==
    <<"a", "@", "x", ".", "c", "o", "m">>
AuthorAUpper ==
    <<"A", "@", "X", ".", "c", "o", "m">>
AuthorB ==
    <<"b", "@", "x", ".", "c", "o", "m">>
GithubDir ==
    <<".", "g", "i", "t", "h", "u", "b", "/">>
SecretGlob ==
    <<"*", ".", "s", "e", "c", "r", "e", "t">>
CiYml ==
    <<".", "g", "i", "t", "h", "u", "b", "/", "w", "o", "r", "k", "f", "l", "o", "w", "s", "/", "c", "i", ".", "y", "m", "l">>
SrcATs ==
    <<"s", "r", "c", "/", "a", ".", "t", "s">>
ReadmeMd ==
    <<"R", "E", "A", "D", "M", "E", ".", "m", "d">>
Github2X ==
    <<".", "g", "i", "t", "h", "u", "b", "2", "/", "x">>
ASecret ==
    <<"a", ".", "s", "e", "c", "r", "e", "t">>
VisPublic ==
    <<"p", "u", "b", "l", "i", "c">>
VisPrivate ==
    <<"p", "r", "i", "v", "a", "t", "e">>
VisInternal ==
    <<"i", "n", "t", "e", "r", "n", "a", "l">>
VisUnknown ==
    <<"u", "n", "k", "n", "o", "w", "n">>
GhPUBLIC ==
    <<"P", "U", "B", "L", "I", "C">>
GhPRIVATE ==
    <<"P", "R", "I", "V", "A", "T", "E">>
GhInternalLine ==
    <<"i", "n", "t", "e", "r", "n", "a", "l", "\n">>
BranchFeat ==
    <<"f", "e", "a", "t">>

(***************************************************************************)
(* JavaScript string primitives on character sequences.                    *)
(***************************************************************************)
UpperLetters ==
    <<"A", "B", "C", "D", "E", "F", "G", "H", "I", "J", "K", "L", "M",
      "N", "O", "P", "Q", "R", "S", "T", "U", "V", "W", "X", "Y", "Z">>

LowerLetters ==
    <<"a", "b", "c", "d", "e", "f", "g", "h", "i", "j", "k", "l", "m",
      "n", "o", "p", "q", "r", "s", "t", "u", "v", "w", "x", "y", "z">>

toLowerCaseChar(c) ==
    IF \E i \in 1..Len(UpperLetters) : UpperLetters[i] = c
    THEN LowerLetters[CHOOSE i \in 1..Len(UpperLetters) : UpperLetters[i] = c]
    ELSE c

toLowerCase(s) ==
    [i \in 1..Len(s) |-> toLowerCaseChar(s[i])]

WhiteSpace ==
    {" ", "\t", "\n", "\r"}

RECURSIVE trimStart(_)
trimStart(s) ==
    IF s # <<>> /\ Head(s) \in WhiteSpace THEN trimStart(Tail(s)) ELSE s

RECURSIVE trimEnd(_)
trimEnd(s) ==
    IF s # <<>> /\ s[Len(s)] \in WhiteSpace
    THEN trimEnd(SubSeq(s, 1, Len(s) - 1))
    ELSE s

trim(s) ==
    trimEnd(trimStart(s))

startsWith(s, prefix) ==
    /\ Len(prefix) <= Len(s)
    /\ SubSeq(s, 1, Len(prefix)) = prefix

endsWith(s, suffix) ==
    /\ Len(suffix) <= Len(s)
    /\ SubSeq(s, Len(s) - Len(suffix) + 1, Len(s)) = suffix

includes(list, x) ==
    \E i \in 1..Len(list) : list[i] = x

(***************************************************************************)
(* The path matcher (checker.ts).  A glob is turned into a regular         *)
(* expression source by three successive replacements and then tested      *)
(* anchored at both ends.                                                  *)
(***************************************************************************)
RegexSpecials ==
    {".", "+", "^", "$", "{", "}", "(", ")", "|", "[", "]", "\\"}

RECURSIVE escapeSpecials(_)
escapeSpecials(p) ==
    IF p = <<>> THEN <<>>
    ELSE (IF Head(p) \in RegexSpecials THEN <<"\\", Head(p)>> ELSE <<Head(p)>>)
         \o escapeSpecials(Tail(p))

RECURSIVE replaceStar(_)
replaceStar(p) ==
    IF p = <<>> THEN <<>>
    ELSE (IF Head(p) = "*" THEN <<".", "*">> ELSE <<Head(p)>>)
         \o replaceStar(Tail(p))

RECURSIVE replaceQuestion(_)
replaceQuestion(p) ==
    IF p = <<>> THEN <<>>
    ELSE (IF Head(p) = "?" THEN <<".">> ELSE <<Head(p)>>)
         \o replaceQuestion(Tail(p))

\* A conversion that leaves the regular expression's special characters alone.
regexPattern_NoEscape(pattern) ==
    replaceQuestion(replaceStar(pattern))

regexPattern(pattern) ==
    replaceQuestion(replaceStar(escapeSpecials(pattern)))

\* What "." matches in a JavaScript regular expression without the s flag.
LineTerminators ==
    {"\n", "\r"}

\* new RegExp("^" + r + "$").test(s), for the sources regexPattern produces:
\* "\c" is the character c, ".*" any run of dot-characters, "." one of them.
RECURSIVE regexTest(_, _)
regexTest(r, s) ==
    IF r = <<>> THEN s = <<>>
    ELSE IF r[1] = "\\" /\ Len(r) >= 2
    THEN /\ s # <<>>
         /\ s[1] = r[2]
         /\ regexTest(SubSeq(r, 3, Len(r)), Tail(s))
    ELSE IF r[1] = "." /\ Len(r) >= 2 /\ r[2] = "*"
    THEN \E k \in 0..Len(s) :
            /\ \A i \in 1..k : s[i] \notin LineTerminators
            /\ regexTest(SubSeq(r, 3, Len(r)), SubSeq(s, k + 1, Len(s)))
    ELSE IF r[1] = "."
    THEN /\ s # <<>>
         /\ s[1] \notin LineTerminators
         /\ regexTest(Tail(r), Tail(s))
    ELSE /\ s # <<>>
         /\ s[1] = r[1]
         /\ regexTest(Tail(r), Tail(s))

\* A directory test that forgets the "/" after the directory's name.
matchesPattern_PrefixOnly(filePath, pattern) ==
    IF endsWith(pattern, <<"/">>)
    THEN LET dirPattern == SubSeq(pattern, 1, Len(pattern) - 1)
         IN  \/ startsWith(filePath, dirPattern)
             \/ filePath = dirPattern
    ELSE regexTest(regexPattern(pattern), filePath)

matchesPattern(filePath, pattern) ==
    IF endsWith(pattern, <<"/">>)
    THEN LET dirPattern == SubSeq(pattern, 1, Len(pattern) - 1)
         IN  \/ startsWith(filePath, dirPattern \o <<"/">>)
             \/ filePath = dirPattern
    ELSE regexTest(regexPattern(pattern), filePath)

\* A plausible slip: only the first pattern of the list is tested.
matchesForbiddenPath_FirstPatternOnly(filePath, forbiddenPaths) ==
    IF forbiddenPaths = <<>> THEN FALSE
    ELSE matchesPattern(filePath, Head(forbiddenPaths))

RECURSIVE matchesForbiddenPath(_, _)
matchesForbiddenPath(filePath, forbiddenPaths) ==
    IF forbiddenPaths = <<>> THEN FALSE
    ELSE IF matchesPattern(filePath, Head(forbiddenPaths)) THEN TRUE
    ELSE matchesForbiddenPath(filePath, Tail(forbiddenPaths))

findForbiddenFiles(changedFiles, forbiddenPaths) ==
    SelectSeq(changedFiles, LAMBDA file : matchesForbiddenPath(file, forbiddenPaths))


(***************************************************************************)
(* The decision engine (checker.ts).                                       *)
(***************************************************************************)
RECURSIVE join(_, _)
join(list, sep) ==
    IF list = <<>> THEN <<>>
    ELSE IF Len(list) = 1 THEN list[1]
    ELSE list[1] \o sep \o join(Tail(list), sep)

\* A plausible slip: the emails compared without lower-casing.
checkDetails_CaseSensitive(config, currentBranch, newBranch, authorEmail, localEmail, diffFiles) ==
    LET forbiddenFiles == findForbiddenFiles(diffFiles, config.forbiddenPaths)
    IN  [isNewBranch |-> newBranch,
         isOwnLastCommit |-> authorEmail = localEmail,
         hasForbiddenChanges |-> Len(forbiddenFiles) > 0,
         forbiddenFiles |-> forbiddenFiles,
         currentBranch |-> currentBranch,
         authorEmail |-> authorEmail,
         localEmail |-> localEmail,
         repoVisibility |-> <<>>,
         visibilityAllowed |-> <<>>]

checkDetails(config, currentBranch, newBranch, authorEmail, localEmail, diffFiles) ==
    LET forbiddenFiles == findForbiddenFiles(diffFiles, config.forbiddenPaths)
        hasForbiddenChanges == Len(forbiddenFiles) > 0
        isOwnLastCommit == toLowerCase(authorEmail) = toLowerCase(localEmail)
    IN  [isNewBranch |-> newBranch,
         isOwnLastCommit |-> isOwnLastCommit,
         hasForbiddenChanges |-> hasForbiddenChanges,
         forbiddenFiles |-> forbiddenFiles,
         currentBranch |-> currentBranch,
         authorEmail |-> authorEmail,
         localEmail |-> localEmail,
         repoVisibility |-> <<>>,
         visibilityAllowed |-> <<>>]

ForbiddenReason(details) ==
    [text |-> "Forbidden files detected: ",
     arg |-> join(details.forbiddenFiles, <<",", " ">>)]

\* A plausible slip: the new-branch rule tested before the forbidden-path rule.
checkPushResult_NewBranchFirst(config, currentBranch, newBranch, authorEmail, localEmail, diffFiles) ==
    LET details == checkDetails(config, currentBranch, newBranch, authorEmail,
                                localEmail, diffFiles)
    IN  IF newBranch
        THEN [allowed |-> TRUE,
              reason |-> [text |-> "New branch - no restrictions", arg |-> <<>>],
              details |-> details]
        ELSE IF details.hasForbiddenChanges
        THEN [allowed |-> FALSE, reason |-> ForbiddenReason(details), details |-> details]
        ELSE IF details.isOwnLastCommit
        THEN [allowed |-> TRUE,
              reason |-> [text |-> "Last commit is yours", arg |-> <<>>],
              details |-> details]
        ELSE [allowed |-> FALSE,
              reason |-> [text |-> "Last commit is by someone else", arg |-> authorEmail],
              details |-> details]

\* A plausible slip: on an existing branch with a foreign last commit the
\* authorship reason is given even when forbidden files were changed.
checkPushResult_AuthorReasonFirst(config, currentBranch, newBranch, authorEmail, localEmail, diffFiles) ==
    LET details == checkDetails(config, currentBranch, newBranch, authorEmail,
                                localEmail, diffFiles)
    IN  IF ~newBranch /\ ~details.isOwnLastCommit
        THEN [allowed |-> FALSE,
              reason |-> [text |-> "Last commit is by someone else", arg |-> authorEmail],
              details |-> details]
        ELSE IF details.hasForbiddenChanges
        THEN [allowed |-> FALSE, reason |-> ForbiddenReason(details), details |-> details]
        ELSE IF newBranch
        THEN [allowed |-> TRUE,
              reason |-> [text |-> "New branch - no restrictions", arg |-> <<>>],
              details |-> details]
        ELSE [allowed |-> TRUE,
              reason |-> [text |-> "Last commit is yours", arg |-> <<>>],
              details |-> details]

checkPushResult(config, currentBranch, newBranch, authorEmail, localEmail, diffFiles) ==
    LET details == checkDetails(config, currentBranch, newBranch, authorEmail,
                                localEmail, diffFiles)
    IN  IF details.hasForbiddenChanges
        THEN [allowed |-> FALSE, reason |-> ForbiddenReason(details), details |-> details]
        ELSE IF newBranch
        THEN [allowed |-> TRUE,
              reason |-> [text |-> "New branch - no restrictions", arg |-> <<>>],
              details |-> details]
        ELSE IF details.isOwnLastCommit
        THEN [allowed |-> TRUE,
              reason |-> [text |-> "Last commit is yours", arg |-> <<>>],
              details |-> details]
        ELSE [allowed |-> FALSE,
              reason |-> [text |-> "Last commit is by someone else", arg |-> authorEmail],
              details |-> details]

\* The outcome of the gh process: exit code 0 with its stdout, a non-zero exit,
\* or a process that could not be spawned (exit code absent).
GhOutcomes ==
    {[spawned |-> TRUE, exitCode |-> 0, stdout |-> GhPUBLIC],
     [spawned |-> TRUE, exitCode |-> 0, stdout |-> GhPRIVATE],
     [spawned |-> TRUE, exitCode |-> 0, stdout |-> GhInternalLine],
     [spawned |-> TRUE, exitCode |-> 1, stdout |-> <<>>],
     [spawned |-> FALSE, exitCode |-> 0, stdout |-> <<>>]}

\* A plausible slip: gh's output is trimmed but its letter case is kept.
getRepoVisibility_KeepsCase(gh) ==
    IF gh.spawned /\ gh.exitCode = 0
    THEN [threw |-> FALSE, value |-> trim(gh.stdout)]
    ELSE [threw |-> TRUE, value |-> <<>>]

getRepoVisibility(gh) ==
    IF gh.spawned /\ gh.exitCode = 0
    THEN [threw |-> FALSE, value |-> toLowerCase(trim(gh.stdout))]
    ELSE [threw |-> TRUE, value |-> <<>>]

\* A checkVisibility that reports every visibility as allowed.
checkVisibility_IgnoreList(allowedVisibility, gh) ==
    IF allowedVisibility = <<>> \/ Len(allowedVisibility[1]) = 0
    THEN [threw |-> FALSE, queried |-> FALSE, result |-> <<>>]
    ELSE LET visibility == getRepoVisibility(gh)
         IN  IF visibility.threw
             THEN [threw |-> TRUE, queried |-> TRUE, result |-> <<>>]
             ELSE [threw |-> FALSE, queried |-> TRUE,
                   result |-> <<[allowed |-> TRUE, visibility |-> visibility.value]>>]

\* A checkVisibility that returns null when the visibility cannot be obtained.
checkVisibility_SwallowFailure(allowedVisibility, gh) ==
    IF allowedVisibility = <<>> \/ Len(allowedVisibility[1]) = 0
    THEN [threw |-> FALSE, queried |-> FALSE, result |-> <<>>]
    ELSE LET visibility == getRepoVisibility(gh)
         IN  IF visibility.threw
             THEN [threw |-> FALSE, queried |-> TRUE, result |-> <<>>]
             ELSE [threw |-> FALSE, queried |-> TRUE,
                   result |-> <<[allowed |-> includes(allowedVisibility[1], visibility.value),
                                 visibility |-> visibility.value]>>]

\* allowedVisibility is <<>> when the key is absent and <<list>> when present.
\* The result is <<>> for null and <<r>> for a VisibilityCheckResult.
checkVisibility(allowedVisibility, gh) ==
    IF allowedVisibility = <<>> \/ Len(allowedVisibility[1]) = 0
    THEN [threw |-> FALSE, queried |-> FALSE, result |-> <<>>]
    ELSE LET visibility == getRepoVisibility(gh)
         IN  IF visibility.threw
             THEN [threw |-> TRUE, queried |-> TRUE, result |-> <<>>]
             ELSE [threw |-> FALSE, queried |-> TRUE,
                   result |-> <<[allowed |-> includes(allowedVisibility[1], visibility.value),
                                 visibility |-> visibility.value]>>]

(***************************************************************************)
(* promptConfirm (commands/utils.ts): input is the sequence of lines the   *)
(* console iterator yields before end of input.                            *)
(***************************************************************************)
\* A promptConfirm that keeps reading until some line is an affirmative answer.
promptConfirm_AnyLine(input) ==
    \E i \in 1..Len(input) :
       LET answer == toLowerCase(trim(input[i]))
       IN  answer = <<"y">> \/ answer = <<"y", "e", "s">>

promptConfirm(input) ==
    IF Len(input) = 0 THEN FALSE
    ELSE LET answer == toLowerCase(trim(input[1]))
         IN  answer = <<"y">> \/ answer = <<"y", "e", "s">>

(***************************************************************************)
(* loadConfig (config.ts): the file is absent, present and valid (data is  *)
(* the parsed value with the schema's defaults applied), or present and    *)
(* unreadable / unparsable / invalid.                                      *)
(***************************************************************************)
getDefaultConfig ==
    [forbiddenPaths |-> <<GithubDir>>,
     onForbidden |-> "error",
     allowedVisibility |-> <<>>,
     trace |-> <<>>]

getConfigPath ==
    "~/.config/safe-push/config.jsonc"

ConfigError(path) ==
    [name |-> "ConfigError", exitCode |-> -1, path |-> path]

\* A plausible slip: a file that cannot be read, parsed or validated is
\* answered with the defaults.
loadConfig_DefaultsWhenInvalid(file) ==
    IF file.exists /\ file.valid
    THEN [threw |-> FALSE, value |-> file.data, error |-> <<>>]
    ELSE [threw |-> FALSE, value |-> getDefaultConfig, error |-> <<>>]

loadConfig(file) ==
    IF ~file.exists
    THEN [threw |-> FALSE, value |-> getDefaultConfig, error |-> <<>>]
    ELSE IF ~file.valid
    THEN [threw |-> TRUE, value |-> getDefaultConfig,
          error |-> <<ConfigError(getConfigPath)>>]
    ELSE [threw |-> FALSE, value |-> file.data, error |-> <<>>]

(***************************************************************************)
(* The git adapter (git.ts).  A git process either exits 0 with its stdout,*)
(* exits non-zero, or cannot be spawned; execGit turns the last two into a *)
(* GitError.                                                               *)
(***************************************************************************)
GitProbeOutcomes ==
    {[spawned |-> TRUE, exitCode |-> 0],
     [spawned |-> TRUE, exitCode |-> 128],
     [spawned |-> FALSE, exitCode |-> 0]}

execGitOk(proc) ==
    proc.spawned /\ proc.exitCode = 0

\* A repository probe that looks at the exit code only.
isGitRepository_ExitCodeOnly(proc) ==
    IF proc.exitCode = 0 THEN TRUE ELSE FALSE

isGitRepository(proc) ==
    IF execGitOk(proc) THEN TRUE ELSE FALSE

hasCommits(proc) ==
    IF execGitOk(proc) THEN TRUE ELSE FALSE

\* branchQuery is the outcome of git rev-parse --abbrev-ref HEAD behind
\* getCurrentBranch, which is awaited before the try block; refQuery is the
\* outcome of git rev-parse --verify <remote>/<branch> inside it.
isNewBranch(branchQuery, refQuery) ==
    IF ~execGitOk(branchQuery)
    THEN [threw |-> TRUE, value |-> <<>>]
    ELSE IF execGitOk(refQuery)
    THEN [threw |-> FALSE, value |-> <<FALSE>>]
    ELSE [threw |-> FALSE, value |-> <<TRUE>>]

\* A getLocalEmail that asks git first and falls back to the environment.
getLocalEmail_GitFirst(envEmail, gitEmail) ==
    IF gitEmail # <<>>
    THEN [threw |-> FALSE, queriedGit |-> TRUE, value |-> gitEmail[1]]
    ELSE IF envEmail # <<>> /\ envEmail[1] # <<>>
    THEN [threw |-> FALSE, queriedGit |-> TRUE, value |-> envEmail[1]]
    ELSE [threw |-> TRUE, queriedGit |-> TRUE, value |-> <<>>]

\* envEmail is <<>> when SAFE_PUSH_EMAIL is unset and <<s>> when it is set to
\* the string s ("if (envEmail)" is false for undefined and for the empty
\* string); gitEmail is <<>> when git config user.email fails and <<s>> when
\* execGit returns s.  queriedGit says whether execGit was called.
getLocalEmail(envEmail, gitEmail) ==
    IF envEmail # <<>> /\ envEmail[1] # <<>>
    THEN [threw |-> FALSE, queriedGit |-> FALSE, value |-> envEmail[1]]
    ELSE IF gitEmail # <<>>
    THEN [threw |-> FALSE, queriedGit |-> TRUE, value |-> gitEmail[1]]
    ELSE [threw |-> TRUE, queriedGit |-> TRUE, value |-> <<>>]

\* String.prototype.split with a one-character separator.
RECURSIVE split(_, _)
split(s, sep) ==
    IF \A i \in 1..Len(s) : s[i] # sep
    THEN <<s>>
    ELSE LET k == CHOOSE i \in 1..Len(s) :
                     s[i] = sep /\ \A j \in 1..(i - 1) : s[j] # sep
         IN  <<SubSeq(s, 1, k - 1)>> \o split(SubSeq(s, k + 1, Len(s)), sep)

\* The lines getDiffFiles works on: execGit trims the stdout of git diff
\* --name-only, an empty output gives no line, any other is split at "\n".
diffOutputLines(stdout) ==
    LET output == trim(stdout)
    IN  IF output = <<>> THEN <<>> ELSE split(output, "\n")

\* A getDiffFiles that tries origin/master before origin/main.
getDiffFiles_MasterFirst(isNew, hasMain, hasMaster, diffLines) ==
    LET baseBranch == IF isNew
                      THEN (IF hasMaster THEN "origin/master"
                            ELSE IF hasMain THEN "origin/main"
                            ELSE "")
                      ELSE "origin/<branch>"
    IN  IF baseBranch = ""
        THEN [baseBranch |-> "", files |-> <<>>]
        ELSE [baseBranch |-> baseBranch,
              files |-> SelectSeq(diffLines, LAMBDA line : line # <<>>)]

\* isNew is the result of isNewBranch; hasMain / hasMaster say whether
\* origin/main and origin/master resolve; diffLines is the stdout of git diff
\* --name-only against the chosen base, split at line breaks.
getDiffFiles(isNew, hasMain, hasMaster, diffLines) ==
    LET baseBranch == IF isNew
                      THEN (IF hasMain THEN "origin/main"
                            ELSE IF hasMaster THEN "origin/master"
                            ELSE "")
                      ELSE "origin/<branch>"
    IN  IF baseBranch = ""
        THEN [baseBranch |-> "", files |-> <<>>]
        ELSE [baseBranch |-> baseBranch,
              files |-> SelectSeq(diffLines, LAMBDA line : line # <<>>)]

Origin ==
    <<"o", "r", "i", "g", "i", "n">>
PushVerb ==
    <<"p", "u", "s", "h">>
FlagU ==
    <<"-", "u">>
FlagSetUpstream ==
    <<"-", "-", "s", "e", "t", "-", "u", "p", "s", "t", "r", "e", "a", "m">>
FlagNoVerify ==
    <<"-", "-", "n", "o", "-", "v", "e", "r", "i", "f", "y">>

\* args.some((arg) => !arg.startsWith("-"))
hasUserRefspec(args) ==
    \E i \in 1..Len(args) : ~startsWith(args[i], <<"-">>)

\* args.some((a) => a === "-u" || a === "--set-upstream")
hasSetUpstream(args) ==
    \E i \in 1..Len(args) : args[i] = FlagU \/ args[i] = FlagSetUpstream

\* An argument list whose passthrough tail keeps the upstream-tracking flags.
pushArgs_KeepUpstreamFlags(args, remote, branch, isNew) ==
    IF hasUserRefspec(args)
    THEN <<PushVerb>> \o args
    ELSE <<PushVerb>>
         \o (IF isNew \/ hasSetUpstream(args) THEN <<FlagU>> ELSE <<>>)
         \o <<remote, branch>>
         \o args

\* The argument list execPush hands to git, given the current branch and the
\* result of isNewBranch (both are queried only without a user refspec).
pushArgs(args, remote, branch, isNew) ==
    LET remainingFlags == SelectSeq(args, LAMBDA a : a # FlagU /\ a # FlagSetUpstream)
    IN  IF hasUserRefspec(args)
        THEN <<PushVerb>> \o args
        ELSE <<PushVerb>>
             \o (IF isNew \/ hasSetUpstream(args) THEN <<FlagU>> ELSE <<>>)
             \o <<remote, branch>>
             \o remainingFlags

\* The git push process: stdout and stderr are fixed texts, "" when empty.
PushProcessOutcomes ==
    {[spawned |-> TRUE, exitCode |-> 0, stdout |-> "", stderr |-> "To origin"],
     [spawned |-> TRUE, exitCode |-> 1, stdout |-> "", stderr |-> ""],
     [spawned |-> FALSE, exitCode |-> 0, stdout |-> "", stderr |-> ""]}

\* [stdout, stderr].filter(Boolean).join("\n") on fixed texts.
pushOutput(proc) ==
    IF proc.stdout # "" /\ proc.stderr # "" THEN "stdout+stderr"
    ELSE IF proc.stdout # "" THEN proc.stdout
    ELSE proc.stderr

\* branchQuery is the outcome of the git process behind getCurrentBranch,
\* refExists whether origin/<branch> resolves, proc the git push process.
execPush(args, branchQuery, refExists, proc) ==
    LET noRefspec == ~hasUserRefspec(args)
    IN  IF noRefspec /\ ~execGitOk(branchQuery)
        THEN [threw |-> TRUE, pushArgs |-> <<>>, result |-> <<>>]
        ELSE LET argv == pushArgs(args, Origin, BranchFeat, ~refExists)
                 result ==
                     IF proc.spawned /\ proc.exitCode = 0
                     THEN [success |-> TRUE, output |-> pushOutput(proc)]
                     ELSE IF proc.spawned
                     THEN [success |-> FALSE,
                           output |-> IF pushOutput(proc) # ""
                                      THEN pushOutput(proc)
                                      ELSE "Push failed with exit code"]
                     ELSE [success |-> FALSE, output |-> "spawn error message"]
             IN  [threw |-> FALSE, pushArgs |-> argv, result |-> <<result>>]

(***************************************************************************)
(* checkPush as the sequence of its five awaited queries: the first one    *)
(* that fails throws a GitError out of checkPush; otherwise the verdict is *)
(* computed from the gathered facts.                                       *)
(***************************************************************************)
AuthorEmails ==
    {AuthorA, AuthorB}

LocalIdentities ==
    {[env |-> <<>>, git |-> <<AuthorA>>],
     [env |-> <<>>, git |-> <<AuthorAUpper>>],
     [env |-> <<AuthorB>>, git |-> <<AuthorA>>],
     [env |-> <<>>, git |-> <<>>]}

DiffOutputs ==
    {<<>>, <<ReadmeMd>>, <<CiYml, SrcATs>>, <<ASecret, Github2X, CiYml>>}

BaseRefs ==
    {[hasMain |-> TRUE, hasMaster |-> FALSE],
     [hasMain |-> FALSE, hasMaster |-> TRUE],
     [hasMain |-> FALSE, hasMaster |-> FALSE]}

RepoStates ==
    [branchQuery : GitProbeOutcomes,
     refExists : BOOLEAN,
     author : AuthorEmails,
     identity : LocalIdentities,
     baseRefs : BaseRefs,
     diffLines : DiffOutputs]

checkPush(cfg, repo) ==
    LET localEmail == getLocalEmail(repo.identity.env, repo.identity.git)
        newBranch == ~repo.refExists
        diff == getDiffFiles(newBranch, repo.baseRefs.hasMain,
                             repo.baseRefs.hasMaster, repo.diffLines)
    IN  IF ~execGitOk(repo.branchQuery)
        THEN [threw |-> TRUE, failed |-> "getCurrentBranch",
              facts |-> <<>>, result |-> <<>>]
        ELSE IF localEmail.threw
        THEN [threw |-> TRUE, failed |-> "getLocalEmail",
              facts |-> <<>>, result |-> <<>>]
        ELSE [threw |-> FALSE, failed |-> "",
              facts |-> <<[isNewBranch |-> newBranch,
                           authorEmail |-> repo.author,
                           localEmail |-> localEmail.value,
                           diffFiles |-> diff.files]>>,
              result |-> <<checkPushResult(cfg, BranchFeat, newBranch, repo.author,
                                           localEmail.value, diff.files)>>]

(***************************************************************************)
(* Inputs of one invocation.                                               *)
(***************************************************************************)
ForbiddenPathsChoices ==
    {<<GithubDir>>, <<GithubDir, SecretGlob>>}

AllowedVisibilityChoices ==
    {<<>>, << <<VisPrivate>> >>, << <<VisPublic, VisInternal>> >>}

ValidConfigs ==
    [forbiddenPaths : ForbiddenPathsChoices,
     onForbidden : {"error", "prompt"},
     allowedVisibility : AllowedVisibilityChoices,
     trace : {<<>>}]
    \cup {[forbiddenPaths |-> <<GithubDir>>, onForbidden |-> "error",
           allowedVisibility |-> << <<>> >>, trace |-> <<>>],
          [forbiddenPaths |-> <<GithubDir>>, onForbidden |-> "error",
           allowedVisibility |-> <<>>, trace |-> <<"console">>]}

ConfigFiles ==
    {[exists |-> FALSE, valid |-> FALSE, data |-> getDefaultConfig],
     [exists |-> TRUE, valid |-> FALSE, data |-> getDefaultConfig]}
    \cup {[exists |-> TRUE, valid |-> TRUE, data |-> c] : c \in ValidConfigs}

GitArgsChoices ==
    {<<>>, <<Origin, BranchFeat>>}

\* Lines the operator may type at the override prompt, and the input streams
\* built from them: no line at all, one line, or two lines.
PromptLines ==
    {<<"n">>, <<" ", "Y", "E", "S", "\r">>}

MaxInputLines ==
    2

PromptInputs ==
    UNION {[1..n -> PromptLines] : n \in 0..MaxInputLines}

ExitError(code) ==
    [name |-> "ExitError", exitCode |-> code]

GitError ==
    [name |-> "GitError", exitCode |-> -1]

\* The directory the process is started in.
ServerDir ==
    <<"srv">>

\* No query of the evaluation has asked for the new-branch status yet.
NoRefSeen ==
    [verdict |-> <<>>, diffBase |-> <<>>, push |-> <<>>]

\* new Map<string, StreamableHTTPServerTransport>()
EmptyMap ==
    [sid \in {} |-> 0]

VARIABLES
    surface,          \* "push" (CLI), "check" (CLI), "mcp" (the MCP push tool),
                      \* or "promptConfirm" / "function" (a function called on its own)
    force, dryRun,    \* the invocation's flags
    traceOpt,         \* --trace given on the command line
    gitArgs,          \* the arguments passed through to git push
    configFile,       \* the configuration file on disk
    pc,               \* the handler's position
    hookCalls,        \* operations invoked by index.ts's preAction hook
    shutdownFn,       \* telemetry.ts: shutdownFn is set
    config,           \* <<>> or <<the loaded Config>>
    visibilityResult, \* <<>> or <<VisibilityCheckResult>>
    facts,            \* <<>> or <<the git facts checkPush gathered>>
    checkResult,      \* <<>> or <<CheckResult>>
    input,            \* the lines read at the override prompt
    confirmed,        \* <<>> or <<promptConfirm's result>>
    via,              \* how the flow reached the push: force, allowed, confirmed
    pushResult,       \* <<>> or <<execPush's result>>
    calls,            \* operations the handler has invoked, in order
    printed,          \* messages printed by the CLI handler
    thrown,           \* <<>> or <<the error that left the handler>>
    toolResult,       \* <<>> or <<the MCP tool's result>>
    exitCode,         \* <<>> or <<the process exit code>>
    probe,            \* the results of isGitRepository and hasCommits, each <<>> or <<b>>
    ghProc,           \* <<>> or <<the outcome of the gh process>>
    call,             \* <<>> or <<a function called on its own, with its arguments>>
    returned,         \* <<>> or <<what that call returned>>
    cwd,              \* the process's working directory, as the names from the root
    gitRootEnv,       \* SAFE_PUSH_GIT_ROOT: <<>> or <<the path it holds>>
    evaluated,        \* per finished MCP chdir step: <<the directory entered>>, or <<>> if it threw
    exitPath,         \* what index.ts did after parseAsync, in order
    remoteRef,        \* the remote-tracking ref origin/<branch> exists right now
    refSeen,          \* the new-branch status each query of one evaluation obtained
    refChanges,       \* how often another process has created or deleted the ref
    transports,       \* the HTTP server's Map from session id to transport
    connected,        \* the transports the HTTP server constructed, in order
    response,         \* what the HTTP server did with the last request
    requestCount      \* requests the HTTP server has handled

vars ==
    <<surface, force, dryRun, traceOpt, gitArgs, configFile, pc, hookCalls,
      shutdownFn, config, visibilityResult, facts, checkResult, input, confirmed,
      via, pushResult, calls, printed, thrown, toolResult, exitCode, probe, ghProc,
      call, returned, cwd, gitRootEnv, evaluated, exitPath, remoteRef, refSeen,
      refChanges, transports, connected, response, requestCount>>

\* The state of startHttpServer.
httpVars ==
    <<transports, connected, response, requestCount>>

\* The remote-tracking ref and what the queries of one evaluation saw of it.
raceVars ==
    <<remoteRef, refSeen, refChanges>>

\* The MCP server process's directory state.
sessionVars ==
    <<cwd, gitRootEnv, evaluated>>

\* What the steps of the handlers leave alone.
unitVars ==
    <<call, returned, sessionVars, exitPath, raceVars, httpVars>>

inputVars ==
    <<surface, force, dryRun, traceOpt, gitArgs, configFile>>

Init ==
    /\ surface \in {"push", "check", "mcp"}
    /\ force \in (IF surface = "check" THEN {FALSE} ELSE BOOLEAN)
    /\ dryRun \in (IF surface = "check" THEN {FALSE} ELSE BOOLEAN)
    /\ traceOpt \in (IF surface = "mcp" THEN {FALSE} ELSE BOOLEAN)
    /\ gitArgs \in (IF surface = "check" THEN {<<>>} ELSE GitArgsChoices)
    /\ configFile \in ConfigFiles
    /\ pc = (IF surface = "mcp" THEN "isGitRepository" ELSE "preAction")
    /\ hookCalls = <<>>
    /\ shutdownFn = FALSE
    /\ config = <<>>
    /\ visibilityResult = <<>>
    /\ facts = <<>>
    /\ checkResult = <<>>
    /\ input = <<>>
    /\ confirmed = <<>>
    /\ via = ""
    /\ pushResult = <<>>
    /\ calls = <<>>
    /\ printed = <<>>
    /\ thrown = <<>>
    /\ toolResult = <<>>
    /\ exitCode = <<>>
    /\ probe = [isGitRepository |-> <<>>, hasCommits |-> <<>>]
    /\ ghProc = <<>>
    /\ call = <<>>
    /\ returned = <<>>
    /\ cwd = ServerDir
    /\ gitRootEnv = <<>>
    /\ evaluated = <<>>
    /\ exitPath = <<>>
    /\ remoteRef = FALSE
    /\ refSeen = NoRefSeen
    /\ refChanges = 0
    /\ transports = EmptyMap
    /\ connected = <<>>
    /\ response = <<>>
    /\ requestCount = 0

engineVars ==
    <<config, visibilityResult, facts, checkResult, input, confirmed, via, pushResult>>

visibilityConfigured(cfg) ==
    cfg.allowedVisibility # <<>> /\ Len(cfg.allowedVisibility[1]) > 0

(***************************************************************************)
(* index.ts: the preAction hook, and the exit mapping after parseAsync.    *)
(***************************************************************************)
\* The first step of the command the hook precedes.
handlerEntry ==
    IF surface = "config init" THEN "initConfig" ELSE "isGitRepository"

Index_PreAction ==
    /\ pc = "preAction"
    /\ IF traceOpt
       THEN /\ shutdownFn' = TRUE
            /\ pc' = handlerEntry
            /\ UNCHANGED <<hookCalls, thrown>>
       ELSE LET loaded == loadConfig(configFile)
            IN  /\ hookCalls' = Append(hookCalls, "loadConfig")
                /\ IF loaded.threw
                   THEN /\ thrown' = loaded.error
                        /\ pc' = "finally"
                        /\ UNCHANGED shutdownFn
                   ELSE /\ shutdownFn' = (loaded.value.trace # <<>>)
                        /\ pc' = handlerEntry
                        /\ UNCHANGED thrown
    /\ UNCHANGED <<probe, ghProc>>
    /\ UNCHANGED <<unitVars, inputVars, engineVars, calls, printed, toolResult, exitCode>>

\* An exit mapping that turns every thrown error into exit code 1.
Index_Exit_AnyErrorFails ==
    /\ pc = "finally"
    /\ shutdownFn' = FALSE
    /\ exitCode' = IF thrown = <<>> THEN <<0>> ELSE <<1>>
    /\ exitPath' = <<"shutdownTelemetry", "process.exit">>
    /\ pc' = "exited"
    /\ UNCHANGED <<probe, ghProc>>
    /\ UNCHANGED <<call, returned, sessionVars, raceVars, httpVars, inputVars, engineVars, hookCalls,
                   calls, printed, thrown, toolResult>>

\* A plausible slip: the catch block exits at once on an ExitError, so the
\* finally block is never reached on that path.
Index_Exit_ExitsFromCatch ==
    /\ pc = "finally"
    /\ IF thrown # <<>> /\ thrown[1].name = "ExitError"
       THEN /\ exitCode' = <<thrown[1].exitCode>>
            /\ exitPath' = <<"process.exit">>
            /\ UNCHANGED shutdownFn
       ELSE /\ shutdownFn' = FALSE
            /\ exitCode' = IF thrown = <<>> THEN <<0>> ELSE <<1>>
            /\ exitPath' = <<"shutdownTelemetry",
                             IF thrown = <<>> THEN "process.exit" ELSE "uncaught">>
    /\ pc' = "exited"
    /\ UNCHANGED <<probe, ghProc>>
    /\ UNCHANGED <<call, returned, sessionVars, raceVars, httpVars, inputVars, engineVars, hookCalls,
                   calls, printed, thrown, toolResult>>

\* try / catch / finally around parseAsync: shutdownTelemetry is awaited in
\* the finally block on every path; after it, process.exit is called with the
\* ExitError's code, or with 0 when nothing was thrown; any other error is
\* thrown again by the catch block, so that after the finally block it leaves
\* the module uncaught and the runtime ends the process with code 1.
Index_Exit ==
    /\ pc = "finally"
    /\ shutdownFn' = FALSE
    /\ exitCode' = IF thrown = <<>> THEN <<0>>
                   ELSE IF thrown[1].name = "ExitError" THEN <<thrown[1].exitCode>>
                   ELSE <<1>>
    /\ exitPath' = <<"shutdownTelemetry",
                     IF thrown = <<>> \/ thrown[1].name = "ExitError"
                     THEN "process.exit" ELSE "uncaught">>
    /\ pc' = "exited"
    /\ UNCHANGED <<probe, ghProc>>
    /\ UNCHANGED <<call, returned, sessionVars, raceVars, httpVars, inputVars, engineVars, hookCalls,
                   calls, printed, thrown, toolResult>>

(***************************************************************************)
(* commands/push.ts: the CLI push command.                                 *)
(***************************************************************************)
\* A push handler that reports a missing repository and carries on.
Push_IsGitRepository_ContinuesAnyway ==
    /\ surface = "push"
    /\ pc = "isGitRepository"
    /\ \E proc \in GitProbeOutcomes :
          /\ calls' = Append(calls, "isGitRepository")
          /\ probe' = [probe EXCEPT !.isGitRepository = <<isGitRepository(proc)>>]
          /\ printed' = IF ~isGitRepository(proc)
                        THEN Append(printed, "Not a git repository") ELSE printed
          /\ pc' = "hasCommits"
          /\ UNCHANGED thrown
    /\ UNCHANGED <<ghProc>>
    /\ UNCHANGED <<unitVars, inputVars, engineVars, hookCalls, shutdownFn, toolResult, exitCode>>

Push_IsGitRepository ==
    /\ surface = "push"
    /\ pc = "isGitRepository"
    /\ \E proc \in GitProbeOutcomes :
          /\ calls' = Append(calls, "isGitRepository")
          /\ probe' = [probe EXCEPT !.isGitRepository = <<isGitRepository(proc)>>]
          /\ IF ~isGitRepository(proc)
             THEN /\ printed' = Append(printed, "Not a git repository")
                  /\ thrown' = <<ExitError(1)>>
                  /\ pc' = "finally"
             ELSE /\ pc' = "hasCommits"
                  /\ UNCHANGED <<printed, thrown>>
    /\ UNCHANGED <<ghProc>>
    /\ UNCHANGED <<unitVars, inputVars, engineVars, hookCalls, shutdownFn, toolResult, exitCode>>

\* A commit check whose negative result is reported but does not end the handler.
Push_HasCommits_NoFailFast ==
    /\ surface = "push"
    /\ pc = "hasCommits"
    /\ \E proc \in GitProbeOutcomes :
          /\ calls' = Append(calls, "hasCommits")
          /\ probe' = [probe EXCEPT !.hasCommits = <<hasCommits(proc)>>]
          /\ printed' = IF ~hasCommits(proc)
                        THEN Append(printed, "No commits found") ELSE printed
          /\ pc' = "loadConfig"
          /\ UNCHANGED thrown
    /\ UNCHANGED <<ghProc>>
    /\ UNCHANGED <<unitVars, inputVars, engineVars, hookCalls, shutdownFn, toolResult, exitCode>>

Push_HasCommits ==
    /\ surface = "push"
    /\ pc = "hasCommits"
    /\ \E proc \in GitProbeOutcomes :
          /\ calls' = Append(calls, "hasCommits")
          /\ probe' = [probe EXCEPT !.hasCommits = <<hasCommits(proc)>>]
          /\ IF ~hasCommits(proc)
             THEN /\ printed' = Append(printed, "No commits found")
                  /\ thrown' = <<ExitError(1)>>
                  /\ pc' = "finally"
             ELSE /\ pc' = "loadConfig"
                  /\ UNCHANGED <<printed, thrown>>
    /\ UNCHANGED <<ghProc>>
    /\ UNCHANGED <<unitVars, inputVars, engineVars, hookCalls, shutdownFn, toolResult, exitCode>>

\* A plausible slip: the handler goes from the loaded configuration straight to
\* the force / normal rule, without the visibility gate.
Push_LoadConfig_SkipsGate ==
    /\ surface = "push"
    /\ pc = "loadConfig"
    /\ calls' = Append(calls, "loadConfig")
    /\ LET loaded == loadConfig(configFile)
       IN  IF loaded.threw
           THEN /\ thrown' = loaded.error
                /\ pc' = "finally"
                /\ UNCHANGED config
           ELSE /\ config' = <<loaded.value>>
                /\ pc' = "force"
                /\ UNCHANGED thrown
    /\ UNCHANGED <<probe, ghProc>>
    /\ UNCHANGED <<unitVars, inputVars, visibilityResult, facts, checkResult, input, confirmed,
                   via, pushResult, hookCalls, shutdownFn, printed, toolResult, exitCode>>

Push_LoadConfig ==
    /\ surface = "push"
    /\ pc = "loadConfig"
    /\ calls' = Append(calls, "loadConfig")
    /\ LET loaded == loadConfig(configFile)
       IN  IF loaded.threw
           THEN /\ thrown' = loaded.error
                /\ pc' = "finally"
                /\ UNCHANGED config
           ELSE /\ config' = <<loaded.value>>
                /\ pc' = "checkVisibility"
                /\ UNCHANGED thrown
    /\ UNCHANGED <<probe, ghProc>>
    /\ UNCHANGED <<unitVars, inputVars, visibilityResult, facts, checkResult, input, confirmed,
                   via, pushResult, hookCalls, shutdownFn, printed, toolResult, exitCode>>

\* The visibility gate: a result that is not allowed and a failed query both
\* end in ExitError(1); the catch block passes an ExitError through.
\* A push handler whose gate stays open when gh cannot be asked.
Push_CheckVisibility_FailureOpens ==
    /\ surface = "push"
    /\ pc = "checkVisibility"
    /\ IF visibilityConfigured(config[1])
       THEN \E gh \in GhOutcomes :
               LET v == checkVisibility(config[1].allowedVisibility, gh)
               IN  /\ calls' = calls \o <<"checkVisibility">>
                                 \o (IF v.queried THEN <<"getRepoVisibility">> ELSE <<>>)
                   /\ visibilityResult' = v.result
                   /\ ghProc' = IF v.queried THEN <<gh>> ELSE <<>>
                   /\ IF v.threw
                      THEN /\ printed' = Append(printed, "Failed to check repository visibility")
                           /\ pc' = "force"
                           /\ UNCHANGED thrown
                      ELSE IF v.result # <<>> /\ ~v.result[1].allowed
                      THEN /\ printed' = Append(printed, "Repository visibility is not in allowed list")
                           /\ thrown' = <<ExitError(1)>>
                           /\ pc' = "finally"
                      ELSE /\ pc' = "force"
                           /\ UNCHANGED <<printed, thrown>>
       ELSE /\ pc' = "force"
            /\ UNCHANGED <<calls, visibilityResult, ghProc, printed, thrown>>
    /\ UNCHANGED <<probe>>
    /\ UNCHANGED <<unitVars, inputVars, config, facts, checkResult, input, confirmed, via,
                   pushResult, hookCalls, shutdownFn, toolResult, exitCode>>

Push_CheckVisibility ==
    /\ surface = "push"
    /\ pc = "checkVisibility"
    /\ IF visibilityConfigured(config[1])
       THEN \E gh \in GhOutcomes :
               LET v == checkVisibility(config[1].allowedVisibility, gh)
               IN  /\ calls' = calls \o <<"checkVisibility">>
                                 \o (IF v.queried THEN <<"getRepoVisibility">> ELSE <<>>)
                   /\ visibilityResult' = v.result
                   /\ ghProc' = IF v.queried THEN <<gh>> ELSE <<>>
                   /\ IF v.threw
                      THEN /\ printed' = Append(printed, "Failed to check repository visibility")
                           /\ thrown' = <<ExitError(1)>>
                           /\ pc' = "finally"
                      ELSE IF v.result # <<>> /\ ~v.result[1].allowed
                      THEN /\ printed' = Append(printed, "Repository visibility is not in allowed list")
                           /\ thrown' = <<ExitError(1)>>
                           /\ pc' = "finally"
                      ELSE /\ pc' = "force"
                           /\ UNCHANGED <<printed, thrown>>
       ELSE /\ pc' = "force"
            /\ UNCHANGED <<calls, visibilityResult, ghProc, printed, thrown>>
    /\ UNCHANGED <<probe>>
    /\ UNCHANGED <<unitVars, inputVars, config, facts, checkResult, input, confirmed, via,
                   pushResult, hookCalls, shutdownFn, toolResult, exitCode>>

Push_Force ==
    /\ surface = "push"
    /\ pc = "force"
    /\ IF force
       THEN /\ printed' = Append(printed, "Safety checks bypassed with --force")
            /\ via' = "force"
            /\ pc' = "dryRun"
       ELSE /\ pc' = "checkPush"
            /\ UNCHANGED <<printed, via>>
    /\ UNCHANGED <<probe, ghProc>>
    /\ UNCHANGED <<unitVars, inputVars, config, visibilityResult, facts, checkResult, input,
                   confirmed, pushResult, hookCalls, shutdownFn, calls, thrown,
                   toolResult, exitCode>>

Push_CheckPush ==
    /\ surface = "push"
    /\ pc = "checkPush"
    /\ calls' = Append(calls, "checkPush")
    /\ \E repo \in RepoStates :
          LET r == checkPush(config[1], repo)
          IN  IF r.threw
              THEN /\ thrown' = <<GitError>>
                   /\ pc' = "finally"
                   /\ UNCHANGED <<facts, checkResult, printed>>
              ELSE /\ facts' = r.facts
                   /\ checkResult' = r.result
                   /\ printed' = Append(printed, IF r.result[1].allowed
                                                 THEN "Push ALLOWED" ELSE "Push BLOCKED")
                   /\ pc' = "verdict"
                   /\ UNCHANGED thrown
    /\ UNCHANGED <<probe, ghProc>>
    /\ UNCHANGED <<unitVars, inputVars, config, visibilityResult, input, confirmed, via,
                   pushResult, hookCalls, shutdownFn, toolResult, exitCode>>

\* A blocked branch that offers the prompt on every block when onForbidden is
\* "prompt", without looking at hasForbiddenChanges.
Push_Verdict_PromptOnAnyBlock ==
    /\ surface = "push"
    /\ pc = "verdict"
    /\ IF ~checkResult[1].allowed
       THEN IF config[1].onForbidden = "prompt"
            THEN /\ pc' = "promptConfirm"
                 /\ UNCHANGED <<thrown, via>>
            ELSE /\ thrown' = <<ExitError(1)>>
                 /\ pc' = "finally"
                 /\ UNCHANGED via
       ELSE /\ via' = "allowed"
            /\ pc' = "dryRun"
            /\ UNCHANGED thrown
    /\ UNCHANGED <<probe, ghProc>>
    /\ UNCHANGED <<unitVars, inputVars, config, visibilityResult, facts, checkResult, input,
                   confirmed, pushResult, hookCalls, shutdownFn, calls, printed,
                   toolResult, exitCode>>

Push_Verdict ==
    /\ surface = "push"
    /\ pc = "verdict"
    /\ IF ~checkResult[1].allowed
       THEN IF /\ config[1].onForbidden = "prompt"
               /\ checkResult[1].details.hasForbiddenChanges
            THEN /\ pc' = "promptConfirm"
                 /\ UNCHANGED <<thrown, via>>
            ELSE /\ thrown' = <<ExitError(1)>>
                 /\ pc' = "finally"
                 /\ UNCHANGED via
       ELSE /\ via' = "allowed"
            /\ pc' = "dryRun"
            /\ UNCHANGED thrown
    /\ UNCHANGED <<probe, ghProc>>
    /\ UNCHANGED <<unitVars, inputVars, config, visibilityResult, facts, checkResult, input,
                   confirmed, pushResult, hookCalls, shutdownFn, calls, printed,
                   toolResult, exitCode>>

\* A prompt branch whose decline prints the cancellation and falls through to
\* the push.
Push_PromptConfirm_DeclineProceeds ==
    /\ surface = "push"
    /\ pc = "promptConfirm"
    /\ calls' = Append(calls, "promptConfirm")
    /\ \E lines \in PromptInputs :
          LET answer == promptConfirm(lines)
          IN  /\ input' = lines
              /\ confirmed' = <<answer>>
              /\ via' = "confirmed"
              /\ pc' = "dryRun"
              /\ printed' = IF answer THEN printed
                            ELSE Append(printed, "Push cancelled by user")
              /\ UNCHANGED thrown
    /\ UNCHANGED <<probe, ghProc>>
    /\ UNCHANGED <<unitVars, inputVars, config, visibilityResult, facts, checkResult,
                   pushResult, hookCalls, shutdownFn, toolResult, exitCode>>

\* A prompt that asks again until the operator says yes.
Push_PromptConfirm_AsksUntilYes ==
    /\ surface = "push"
    /\ pc = "promptConfirm"
    /\ calls' = IF \E i \in 1..Len(calls) : calls[i] = "promptConfirm"
                THEN calls ELSE Append(calls, "promptConfirm")
    /\ \E lines \in PromptInputs :
          LET answer == promptConfirm(lines)
          IN  /\ input' = lines
              /\ confirmed' = <<answer>>
              /\ IF answer
                 THEN /\ via' = "confirmed"
                      /\ pc' = "dryRun"
                 ELSE /\ UNCHANGED <<via, pc>>
              /\ UNCHANGED <<printed, thrown>>
    /\ UNCHANGED <<probe, ghProc>>
    /\ UNCHANGED <<unitVars, inputVars, config, visibilityResult, facts, checkResult,
                   pushResult, hookCalls, shutdownFn, toolResult, exitCode>>

Push_PromptConfirm ==
    /\ surface = "push"
    /\ pc = "promptConfirm"
    /\ calls' = Append(calls, "promptConfirm")
    /\ \E lines \in PromptInputs :
          LET answer == promptConfirm(lines)
          IN  /\ input' = lines
              /\ confirmed' = <<answer>>
              /\ IF answer
                 THEN /\ via' = "confirmed"
                      /\ pc' = "dryRun"
                      /\ UNCHANGED <<printed, thrown>>
                 ELSE /\ printed' = Append(printed, "Push cancelled by user")
                      /\ thrown' = <<ExitError(1)>>
                      /\ pc' = "finally"
                      /\ UNCHANGED via
    /\ UNCHANGED <<probe, ghProc>>
    /\ UNCHANGED <<unitVars, inputVars, config, visibilityResult, facts, checkResult,
                   pushResult, hookCalls, shutdownFn, toolResult, exitCode>>

\* Dry-run blocks of which the one after the operator's confirmation is missing.
Push_DryRun_ConfirmedPushes ==
    /\ surface = "push"
    /\ pc = "dryRun"
    /\ IF dryRun /\ via # "confirmed"
       THEN /\ printed' = Append(printed,
                             IF via = "force" THEN "Dry run: would push (checks bypassed)"
                             ELSE "Dry run: would push")
            /\ thrown' = <<ExitError(0)>>
            /\ pc' = "finally"
       ELSE /\ pc' = "execPush"
            /\ UNCHANGED <<printed, thrown>>
    /\ UNCHANGED <<probe, ghProc>>
    /\ UNCHANGED <<unitVars, inputVars, engineVars, hookCalls, shutdownFn, calls, toolResult, exitCode>>

\* The three "if (options.dryRun)" blocks: after --force, after the operator
\* confirmed, and after an allowed verdict.
Push_DryRun ==
    /\ surface = "push"
    /\ pc = "dryRun"
    /\ IF dryRun
       THEN /\ printed' = Append(printed,
                             IF via = "force" THEN "Dry run: would push (checks bypassed)"
                             ELSE IF via = "confirmed" THEN "Dry run: would push (user confirmed)"
                             ELSE "Dry run: would push")
            /\ thrown' = <<ExitError(0)>>
            /\ pc' = "finally"
       ELSE /\ pc' = "execPush"
            /\ UNCHANGED <<printed, thrown>>
    /\ UNCHANGED <<probe, ghProc>>
    /\ UNCHANGED <<unitVars, inputVars, engineVars, hookCalls, shutdownFn, calls, toolResult, exitCode>>

\* A push handler that tries the push again after a failed attempt.
Push_ExecPush_RetriesOnFailure ==
    /\ surface = "push"
    /\ pc = "execPush"
    /\ calls' = Append(calls, "execPush")
    /\ \E branchQuery \in GitProbeOutcomes, refExists \in BOOLEAN, proc \in PushProcessOutcomes :
          LET r == execPush(gitArgs, branchQuery, refExists, proc)
          IN  IF r.threw
              THEN /\ thrown' = <<GitError>>
                   /\ pc' = "finally"
                   /\ UNCHANGED <<pushResult, printed>>
              ELSE /\ pushResult' = r.result
                   /\ IF r.result[1].success
                      THEN /\ printed' = Append(printed, "Push successful")
                           /\ pc' = "finally"
                           /\ UNCHANGED thrown
                      ELSE /\ printed' = Append(printed, "Push failed")
                           /\ pc' = IF Len(calls) < 8 THEN "execPush" ELSE "finally"
                           /\ thrown' = <<ExitError(1)>>
    /\ UNCHANGED <<probe, ghProc>>
    /\ UNCHANGED <<unitVars, inputVars, config, visibilityResult, facts, checkResult, input,
                   confirmed, via, hookCalls, shutdownFn, toolResult, exitCode>>

Push_ExecPush ==
    /\ surface = "push"
    /\ pc = "execPush"
    /\ calls' = Append(calls, "execPush")
    /\ \E branchQuery \in GitProbeOutcomes, refExists \in BOOLEAN, proc \in PushProcessOutcomes :
          LET r == execPush(gitArgs, branchQuery, refExists, proc)
          IN  IF r.threw
              THEN /\ thrown' = <<GitError>>
                   /\ UNCHANGED <<pushResult, printed>>
              ELSE /\ pushResult' = r.result
                   /\ IF r.result[1].success
                      THEN /\ printed' = Append(printed, "Push successful")
                           /\ UNCHANGED thrown
                      ELSE /\ printed' = Append(printed, "Push failed")
                           /\ thrown' = <<ExitError(1)>>
    /\ pc' = "finally"
    /\ UNCHANGED <<probe, ghProc>>
    /\ UNCHANGED <<unitVars, inputVars, config, visibilityResult, facts, checkResult, input,
                   confirmed, via, hookCalls, shutdownFn, toolResult, exitCode>>

(***************************************************************************)
(* commands/mcp.ts: the MCP push tool.  Every path returns a tool result;  *)
(* the outer try / catch turns any error into an "Unexpected error" result.*)
(***************************************************************************)
ToolResult(isError, text) ==
    [isError |-> isError, text |-> text, forceHint |-> FALSE]

Mcp_IsGitRepository ==
    /\ surface = "mcp"
    /\ pc = "isGitRepository"
    /\ \E proc \in GitProbeOutcomes :
          /\ calls' = Append(calls, "isGitRepository")
          /\ probe' = [probe EXCEPT !.isGitRepository = <<isGitRepository(proc)>>]
          /\ IF ~isGitRepository(proc)
             THEN /\ toolResult' = <<ToolResult(TRUE, "Error: Not a git repository")>>
                  /\ pc' = "returned"
             ELSE /\ pc' = "hasCommits"
                  /\ UNCHANGED toolResult
    /\ UNCHANGED <<ghProc>>
    /\ UNCHANGED <<unitVars, inputVars, engineVars, hookCalls, shutdownFn, printed, thrown, exitCode>>

Mcp_HasCommits ==
    /\ surface = "mcp"
    /\ pc = "hasCommits"
    /\ \E proc \in GitProbeOutcomes :
          /\ calls' = Append(calls, "hasCommits")
          /\ probe' = [probe EXCEPT !.hasCommits = <<hasCommits(proc)>>]
          /\ IF ~hasCommits(proc)
             THEN /\ toolResult' = <<ToolResult(TRUE, "Error: No commits found")>>
                  /\ pc' = "returned"
             ELSE /\ pc' = "loadConfig"
                  /\ UNCHANGED toolResult
    /\ UNCHANGED <<ghProc>>
    /\ UNCHANGED <<unitVars, inputVars, engineVars, hookCalls, shutdownFn, printed, thrown, exitCode>>

Mcp_LoadConfig ==
    /\ surface = "mcp"
    /\ pc = "loadConfig"
    /\ calls' = Append(calls, "loadConfig")
    /\ LET loaded == loadConfig(configFile)
       IN  IF loaded.threw
           THEN /\ toolResult' = <<ToolResult(TRUE, "Unexpected error")>>
                /\ pc' = "returned"
                /\ UNCHANGED config
           ELSE /\ config' = <<loaded.value>>
                /\ pc' = "checkVisibility"
                /\ UNCHANGED toolResult
    /\ UNCHANGED <<probe, ghProc>>
    /\ UNCHANGED <<unitVars, inputVars, visibilityResult, facts, checkResult, input, confirmed,
                   via, pushResult, hookCalls, shutdownFn, printed, thrown, exitCode>>

\* A plausible slip: the force flag bypasses the visibility gate in the MCP
\* tool.
Mcp_CheckVisibility_ForceBypasses ==
    /\ surface = "mcp"
    /\ pc = "checkVisibility"
    /\ IF visibilityConfigured(config[1]) /\ ~force
       THEN \E gh \in GhOutcomes :
               LET v == checkVisibility(config[1].allowedVisibility, gh)
               IN  /\ calls' = calls \o <<"checkVisibility">>
                                 \o (IF v.queried THEN <<"getRepoVisibility">> ELSE <<>>)
                   /\ visibilityResult' = v.result
                   /\ ghProc' = IF v.queried THEN <<gh>> ELSE <<>>
                   /\ IF v.threw
                      THEN /\ toolResult' = <<ToolResult(TRUE, "Failed to check repository visibility")>>
                           /\ pc' = "returned"
                      ELSE IF v.result # <<>> /\ ~v.result[1].allowed
                      THEN /\ toolResult' = <<ToolResult(TRUE, "Blocked: visibility")>>
                           /\ pc' = "returned"
                      ELSE /\ pc' = "force"
                           /\ UNCHANGED toolResult
       ELSE /\ pc' = "force"
            /\ UNCHANGED <<calls, visibilityResult, ghProc, toolResult>>
    /\ UNCHANGED <<probe>>
    /\ UNCHANGED <<unitVars, inputVars, config, facts, checkResult, input, confirmed, via,
                   pushResult, hookCalls, shutdownFn, printed, thrown, exitCode>>

Mcp_CheckVisibility ==
    /\ surface = "mcp"
    /\ pc = "checkVisibility"
    /\ IF visibilityConfigured(config[1])
       THEN \E gh \in GhOutcomes :
               LET v == checkVisibility(config[1].allowedVisibility, gh)
               IN  /\ calls' = calls \o <<"checkVisibility">>
                                 \o (IF v.queried THEN <<"getRepoVisibility">> ELSE <<>>)
                   /\ visibilityResult' = v.result
                   /\ ghProc' = IF v.queried THEN <<gh>> ELSE <<>>
                   /\ IF v.threw
                      THEN /\ toolResult' = <<ToolResult(TRUE, "Failed to check repository visibility")>>
                           /\ pc' = "returned"
                      ELSE IF v.result # <<>> /\ ~v.result[1].allowed
                      THEN /\ toolResult' = <<ToolResult(TRUE, "Blocked: visibility")>>
                           /\ pc' = "returned"
                      ELSE /\ pc' = "force"
                           /\ UNCHANGED toolResult
       ELSE /\ pc' = "force"
            /\ UNCHANGED <<calls, visibilityResult, ghProc, toolResult>>
    /\ UNCHANGED <<probe>>
    /\ UNCHANGED <<unitVars, inputVars, config, facts, checkResult, input, confirmed, via,
                   pushResult, hookCalls, shutdownFn, printed, thrown, exitCode>>

\* A force branch that is never taken: the path / author rule runs anyway.
Mcp_Force_ChecksAnyway ==
    /\ surface = "mcp"
    /\ pc = "force"
    /\ pc' = "checkPush"
    /\ UNCHANGED <<via, toolResult>>
    /\ UNCHANGED <<probe, ghProc>>
    /\ UNCHANGED <<unitVars, inputVars, config, visibilityResult, facts, checkResult, input,
                   confirmed, pushResult, hookCalls, shutdownFn, calls, printed,
                   thrown, exitCode>>

\* if (force) { if (dryRun) return ...; execPush } else checkPush
Mcp_Force ==
    /\ surface = "mcp"
    /\ pc = "force"
    /\ IF force
       THEN /\ via' = "force"
            /\ IF dryRun
               THEN /\ toolResult' = <<ToolResult(FALSE, "Dry run: would push (checks bypassed with force)")>>
                    /\ pc' = "returned"
               ELSE /\ pc' = "execPush"
                    /\ UNCHANGED toolResult
       ELSE /\ pc' = "checkPush"
            /\ UNCHANGED <<via, toolResult>>
    /\ UNCHANGED <<probe, ghProc>>
    /\ UNCHANGED <<unitVars, inputVars, config, visibilityResult, facts, checkResult, input,
                   confirmed, pushResult, hookCalls, shutdownFn, calls, printed,
                   thrown, exitCode>>

\* A blocked branch that adds the force hint on every block when onForbidden
\* is "prompt".
Mcp_CheckPush_HintOnAnyBlock ==
    /\ surface = "mcp"
    /\ pc = "checkPush"
    /\ calls' = Append(calls, "checkPush")
    /\ \E repo \in RepoStates :
          LET r == checkPush(config[1], repo)
          IN  IF r.threw
              THEN /\ toolResult' = <<ToolResult(TRUE, "Unexpected error")>>
                   /\ pc' = "returned"
                   /\ UNCHANGED <<facts, checkResult, via>>
              ELSE /\ facts' = r.facts
                   /\ checkResult' = r.result
                   /\ IF ~r.result[1].allowed
                      THEN /\ toolResult' =
                                <<[isError |-> TRUE, text |-> "Push blocked",
                                   forceHint |-> config[1].onForbidden = "prompt"]>>
                           /\ pc' = "returned"
                           /\ UNCHANGED via
                      ELSE /\ via' = "allowed"
                           /\ IF dryRun
                              THEN /\ toolResult' = <<ToolResult(FALSE, "Dry run: would push")>>
                                   /\ pc' = "returned"
                              ELSE /\ pc' = "execPush"
                                   /\ UNCHANGED toolResult
    /\ UNCHANGED <<probe, ghProc>>
    /\ UNCHANGED <<unitVars, inputVars, config, visibilityResult, input, confirmed, pushResult,
                   hookCalls, shutdownFn, printed, thrown, exitCode>>

\* checkPush and the code up to the next await: a blocked verdict returns an
\* error result (with the force hint when onForbidden is "prompt" and the
\* block is path-based), an allowed one goes to the dry-run report or the push.
Mcp_CheckPush ==
    /\ surface = "mcp"
    /\ pc = "checkPush"
    /\ calls' = Append(calls, "checkPush")
    /\ \E repo \in RepoStates :
          LET r == checkPush(config[1], repo)
          IN  IF r.threw
              THEN /\ toolResult' = <<ToolResult(TRUE, "Unexpected error")>>
                   /\ pc' = "returned"
                   /\ UNCHANGED <<facts, checkResult, via>>
              ELSE /\ facts' = r.facts
                   /\ checkResult' = r.result
                   /\ IF ~r.result[1].allowed
                      THEN /\ toolResult' =
                                <<[isError |-> TRUE, text |-> "Push blocked",
                                   forceHint |-> /\ config[1].onForbidden = "prompt"
                                                 /\ r.result[1].details.hasForbiddenChanges]>>
                           /\ pc' = "returned"
                           /\ UNCHANGED via
                      ELSE /\ via' = "allowed"
                           /\ IF dryRun
                              THEN /\ toolResult' = <<ToolResult(FALSE, "Dry run: would push")>>
                                   /\ pc' = "returned"
                              ELSE /\ pc' = "execPush"
                                   /\ UNCHANGED toolResult
    /\ UNCHANGED <<probe, ghProc>>
    /\ UNCHANGED <<unitVars, inputVars, config, visibilityResult, input, confirmed, pushResult,
                   hookCalls, shutdownFn, printed, thrown, exitCode>>

Mcp_ExecPush ==
    /\ surface = "mcp"
    /\ pc = "execPush"
    /\ calls' = Append(calls, "execPush")
    /\ \E branchQuery \in GitProbeOutcomes, refExists \in BOOLEAN, proc \in PushProcessOutcomes :
          LET r == execPush(gitArgs, branchQuery, refExists, proc)
          IN  IF r.threw
              THEN /\ toolResult' = <<ToolResult(TRUE, "Unexpected error")>>
                   /\ UNCHANGED pushResult
              ELSE /\ pushResult' = r.result
                   /\ toolResult' = IF r.result[1].success
                                    THEN <<ToolResult(FALSE, "Push successful")>>
                                    ELSE <<ToolResult(TRUE, "Push failed")>>
    /\ pc' = "returned"
    /\ UNCHANGED <<probe, ghProc>>
    /\ UNCHANGED <<unitVars, inputVars, config, visibilityResult, facts, checkResult, input,
                   confirmed, via, hookCalls, shutdownFn, printed, thrown, exitCode>>

(***************************************************************************)
(* commands/check.ts: the CLI check command.                               *)
(***************************************************************************)
Check_IsGitRepository ==
    /\ surface = "check"
    /\ pc = "isGitRepository"
    /\ \E proc \in GitProbeOutcomes :
          /\ calls' = Append(calls, "isGitRepository")
          /\ probe' = [probe EXCEPT !.isGitRepository = <<isGitRepository(proc)>>]
          /\ IF ~isGitRepository(proc)
             THEN /\ printed' = Append(printed, "Not a git repository")
                  /\ thrown' = <<ExitError(1)>>
                  /\ pc' = "finally"
             ELSE /\ pc' = "hasCommits"
                  /\ UNCHANGED <<printed, thrown>>
    /\ UNCHANGED <<ghProc>>
    /\ UNCHANGED <<unitVars, inputVars, engineVars, hookCalls, shutdownFn, toolResult, exitCode>>

Check_HasCommits ==
    /\ surface = "check"
    /\ pc = "hasCommits"
    /\ \E proc \in GitProbeOutcomes :
          /\ calls' = Append(calls, "hasCommits")
          /\ probe' = [probe EXCEPT !.hasCommits = <<hasCommits(proc)>>]
          /\ IF ~hasCommits(proc)
             THEN /\ printed' = Append(printed, "No commits found")
                  /\ thrown' = <<ExitError(1)>>
                  /\ pc' = "finally"
             ELSE /\ pc' = "loadConfig"
                  /\ UNCHANGED <<printed, thrown>>
    /\ UNCHANGED <<ghProc>>
    /\ UNCHANGED <<unitVars, inputVars, engineVars, hookCalls, shutdownFn, toolResult, exitCode>>

Check_LoadConfig ==
    /\ surface = "check"
    /\ pc = "loadConfig"
    /\ calls' = Append(calls, "loadConfig")
    /\ LET loaded == loadConfig(configFile)
       IN  IF loaded.threw
           THEN /\ thrown' = loaded.error
                /\ pc' = "finally"
                /\ UNCHANGED config
           ELSE /\ config' = <<loaded.value>>
                /\ pc' = "checkPush"
                /\ UNCHANGED thrown
    /\ UNCHANGED <<probe, ghProc>>
    /\ UNCHANGED <<unitVars, inputVars, visibilityResult, facts, checkResult, input, confirmed,
                   via, pushResult, hookCalls, shutdownFn, printed, toolResult, exitCode>>

Check_CheckPush ==
    /\ surface = "check"
    /\ pc = "checkPush"
    /\ calls' = Append(calls, "checkPush")
    /\ \E repo \in RepoStates :
          LET r == checkPush(config[1], repo)
          IN  IF r.threw
              THEN /\ thrown' = <<GitError>>
                   /\ pc' = "finally"
                   /\ UNCHANGED <<facts, checkResult>>
              ELSE /\ facts' = r.facts
                   /\ checkResult' = r.result
                   /\ pc' = "checkVisibility"
                   /\ UNCHANGED thrown
    /\ UNCHANGED <<probe, ghProc>>
    /\ UNCHANGED <<unitVars, inputVars, config, visibilityResult, input, confirmed, via,
                   pushResult, hookCalls, shutdownFn, printed, toolResult, exitCode>>

\* A plausible slip: a failed visibility query is recorded in the details but
\* the verdict is left as checkPush gave it.
Check_CheckVisibility_KeepsVerdict ==
    /\ surface = "check"
    /\ pc = "checkVisibility"
    /\ IF visibilityConfigured(config[1])
       THEN \E gh \in GhOutcomes :
               LET v == checkVisibility(config[1].allowedVisibility, gh)
                   result == checkResult[1]
               IN  /\ calls' = calls \o <<"checkVisibility">>
                                 \o (IF v.queried THEN <<"getRepoVisibility">> ELSE <<>>)
                   /\ visibilityResult' = v.result
                   /\ ghProc' = IF v.queried THEN <<gh>> ELSE <<>>
                   /\ checkResult' =
                        IF v.threw
                        THEN <<[result EXCEPT
                                  !.details.repoVisibility = <<VisUnknown>>,
                                  !.details.visibilityAllowed = <<FALSE>>]>>
                        ELSE IF v.result # <<>>
                        THEN <<[allowed |-> IF v.result[1].allowed THEN result.allowed ELSE FALSE,
                                reason |-> IF v.result[1].allowed THEN result.reason
                                           ELSE [text |-> "Repository visibility is not in allowed list",
                                                 arg |-> v.result[1].visibility],
                                details |-> [result.details EXCEPT
                                               !.repoVisibility = <<v.result[1].visibility>>,
                                               !.visibilityAllowed = <<v.result[1].allowed>>]]>>
                        ELSE checkResult
       ELSE UNCHANGED <<calls, visibilityResult, ghProc, checkResult>>
    /\ pc' = "report"
    /\ UNCHANGED <<probe>>
    /\ UNCHANGED <<unitVars, inputVars, config, facts, input, confirmed, via, pushResult,
                   hookCalls, shutdownFn, printed, thrown, toolResult, exitCode>>

\* A plausible slip: the visibility result replaces the verdict in both
\* directions, so an allowed visibility turns a block into allowed.
Check_CheckVisibility_VisibilityDecides ==
    /\ surface = "check"
    /\ pc = "checkVisibility"
    /\ IF visibilityConfigured(config[1])
       THEN \E gh \in GhOutcomes :
               LET v == checkVisibility(config[1].allowedVisibility, gh)
                   result == checkResult[1]
               IN  /\ calls' = calls \o <<"checkVisibility">>
                                 \o (IF v.queried THEN <<"getRepoVisibility">> ELSE <<>>)
                   /\ visibilityResult' = v.result
                   /\ ghProc' = IF v.queried THEN <<gh>> ELSE <<>>
                   /\ checkResult' =
                        IF v.threw
                        THEN <<[allowed |-> FALSE,
                                reason |-> [text |-> "Failed to check repository visibility", arg |-> <<>>],
                                details |-> [result.details EXCEPT
                                               !.repoVisibility = <<VisUnknown>>,
                                               !.visibilityAllowed = <<FALSE>>]]>>
                        ELSE IF v.result # <<>>
                        THEN <<[allowed |-> v.result[1].allowed,
                                reason |-> IF v.result[1].allowed
                                           THEN [text |-> "Repository visibility is allowed",
                                                 arg |-> v.result[1].visibility]
                                           ELSE [text |-> "Repository visibility is not in allowed list",
                                                 arg |-> v.result[1].visibility],
                                details |-> [result.details EXCEPT
                                               !.repoVisibility = <<v.result[1].visibility>>,
                                               !.visibilityAllowed = <<v.result[1].allowed>>]]>>
                        ELSE checkResult
       ELSE UNCHANGED <<calls, visibilityResult, ghProc, checkResult>>
    /\ pc' = "report"
    /\ UNCHANGED <<probe>>
    /\ UNCHANGED <<unitVars, inputVars, config, facts, input, confirmed, via, pushResult,
                   hookCalls, shutdownFn, printed, thrown, toolResult, exitCode>>

\* The visibility result is written into the CheckResult: it can only turn
\* the verdict into a block, and a failed query is recorded as "unknown".
Check_CheckVisibility ==
    /\ surface = "check"
    /\ pc = "checkVisibility"
    /\ IF visibilityConfigured(config[1])
       THEN \E gh \in GhOutcomes :
               LET v == checkVisibility(config[1].allowedVisibility, gh)
                   result == checkResult[1]
               IN  /\ calls' = calls \o <<"checkVisibility">>
                                 \o (IF v.queried THEN <<"getRepoVisibility">> ELSE <<>>)
                   /\ visibilityResult' = v.result
                   /\ ghProc' = IF v.queried THEN <<gh>> ELSE <<>>
                   /\ checkResult' =
                        IF v.threw
                        THEN <<[allowed |-> FALSE,
                                reason |-> [text |-> "Failed to check repository visibility", arg |-> <<>>],
                                details |-> [result.details EXCEPT
                                               !.repoVisibility = <<VisUnknown>>,
                                               !.visibilityAllowed = <<FALSE>>]]>>
                        ELSE IF v.result # <<>>
                        THEN <<[allowed |-> IF v.result[1].allowed THEN result.allowed ELSE FALSE,
                                reason |-> IF v.result[1].allowed THEN result.reason
                                           ELSE [text |-> "Repository visibility is not in allowed list",
                                                 arg |-> v.result[1].visibility],
                                details |-> [result.details EXCEPT
                                               !.repoVisibility = <<v.result[1].visibility>>,
                                               !.visibilityAllowed = <<v.result[1].allowed>>]]>>
                        ELSE checkResult
       ELSE UNCHANGED <<calls, visibilityResult, ghProc, checkResult>>
    /\ pc' = "report"
    /\ UNCHANGED <<probe>>
    /\ UNCHANGED <<unitVars, inputVars, config, facts, input, confirmed, via, pushResult,
                   hookCalls, shutdownFn, printed, thrown, toolResult, exitCode>>

Check_Report ==
    /\ surface = "check"
    /\ pc = "report"
    /\ printed' = Append(printed, IF checkResult[1].allowed
                                  THEN "Push ALLOWED" ELSE "Push BLOCKED")
    /\ thrown' = IF ~checkResult[1].allowed THEN <<ExitError(1)>> ELSE <<>>
    /\ pc' = "finally"
    /\ UNCHANGED <<probe, ghProc>>
    /\ UNCHANGED <<unitVars, inputVars, engineVars, hookCalls, shutdownFn, calls, toolResult, exitCode>>

Next ==
    \/ Index_PreAction
    \/ Index_Exit
    \/ Push_IsGitRepository
    \/ Push_HasCommits
    \/ Push_LoadConfig
    \/ Push_CheckVisibility
    \/ Push_Force
    \/ Push_CheckPush
    \/ Push_Verdict
    \/ Push_PromptConfirm
    \/ Push_DryRun
    \/ Push_ExecPush
    \/ Mcp_IsGitRepository
    \/ Mcp_HasCommits
    \/ Mcp_LoadConfig
    \/ Mcp_CheckVisibility
    \/ Mcp_Force
    \/ Mcp_CheckPush
    \/ Mcp_ExecPush
    \/ Check_IsGitRepository
    \/ Check_HasCommits
    \/ Check_LoadConfig
    \/ Check_CheckPush
    \/ Check_CheckVisibility
    \/ Check_Report

Spec ==
    Init /\ [][Next]_vars

(***************************************************************************)
(* promptConfirm on its own: the operator's input is drawn from lines made *)
(* of an answer between runs of white space, followed by further lines.    *)
(***************************************************************************)
MaxPad ==
    1

PromptPads ==
    UNION {[1..n -> {" ", "\t", "\r"}] : n \in 0..MaxPad}

PromptCores ==
    {<<"y">>, <<"Y">>, <<"y", "e", "s">>, <<"Y", "E", "S">>, <<"Y", "e", "s">>,
     <<"y", "E", "s">>, <<"n">>, <<"n", "o">>, <<>>, <<"y", " ", "e", "s">>,
     <<"y", "e", "s", "s">>, <<"y", "e">>, <<"o", "k">>}

AnswerLines ==
    {before \o core \o after :
        before \in PromptPads, core \in PromptCores, after \in PromptPads}

ConsoleInputs ==
    {<<>>} \cup {<<first>> \o rest :
                    first \in AnswerLines,
                    rest \in UNION {[1..n -> PromptLines] : n \in 0..(MaxInputLines - 1)}}

InitPrompt ==
    /\ surface = "promptConfirm"
    /\ force = FALSE
    /\ dryRun = FALSE
    /\ traceOpt = FALSE
    /\ gitArgs = <<>>
    /\ configFile \in {c \in ConfigFiles : ~c.exists}
    /\ pc = "promptConfirm"
    /\ hookCalls = <<>>
    /\ shutdownFn = FALSE
    /\ config = <<>>
    /\ visibilityResult = <<>>
    /\ facts = <<>>
    /\ checkResult = <<>>
    /\ input \in ConsoleInputs
    /\ confirmed = <<>>
    /\ via = ""
    /\ pushResult = <<>>
    /\ calls = <<>>
    /\ printed = <<>>
    /\ thrown = <<>>
    /\ toolResult = <<>>
    /\ exitCode = <<>>
    /\ probe = [isGitRepository |-> <<>>, hasCommits |-> <<>>]
    /\ ghProc = <<>>
    /\ call = <<>>
    /\ returned = <<>>
    /\ cwd = ServerDir
    /\ gitRootEnv = <<>>
    /\ evaluated = <<>>
    /\ exitPath = <<>>
    /\ remoteRef = FALSE
    /\ refSeen = NoRefSeen
    /\ refChanges = 0
    /\ transports = EmptyMap
    /\ connected = <<>>
    /\ response = <<>>
    /\ requestCount = 0

\* One call of promptConfirm on the console's input.
PromptConfirm_Call ==
    /\ surface = "promptConfirm"
    /\ pc = "promptConfirm"
    /\ calls' = Append(calls, "promptConfirm")
    /\ confirmed' = <<promptConfirm(input)>>
    /\ pc' = "returned"
    /\ UNCHANGED <<probe, ghProc>>
    /\ UNCHANGED <<unitVars, inputVars, config, visibilityResult, facts, checkResult, input,
                   via, pushResult, hookCalls, shutdownFn, printed, thrown,
                   toolResult, exitCode>>

NextPrompt ==
    PromptConfirm_Call

SpecPrompt ==
    InitPrompt /\ [][NextPrompt]_vars

(***************************************************************************)
(* The git adapter's and the matcher's functions called on their own, on   *)
(* every combination of arguments and process outcomes drawn below.        *)
(***************************************************************************)
MaxArgs ==
    3

ArgTokens ==
    {FlagU, FlagSetUpstream, FlagNoVerify, Origin, BranchFeat, <<>>}

ArgLists ==
    UNION {[1..n -> ArgTokens] : n \in 0..MaxArgs}

ExecPushCalls ==
    [fn : {"execPush"}, args : ArgLists, branchQuery : GitProbeOutcomes,
     refExists : BOOLEAN, proc : PushProcessOutcomes]

\* What git diff --name-only may print: nothing, one name per line, a blank
\* line between names, only line breaks.
DiffStdouts ==
    {<<>>,
     <<"\n">>,
     ReadmeMd \o <<"\n">>,
     CiYml \o <<"\n">> \o SrcATs \o <<"\n">>,
     Github2X \o <<"\n", "\n">> \o ASecret \o <<"\n">>,
     <<"\n">> \o ASecret \o <<"\n", "\n", "\n">> \o ReadmeMd}

GetDiffFilesCalls ==
    [fn : {"getDiffFiles"}, isNew : BOOLEAN, hasMain : BOOLEAN,
     hasMaster : BOOLEAN, stdout : DiffStdouts]

GetLocalEmailCalls ==
    [fn : {"getLocalEmail"},
     env : {<<>>, << <<>> >>, <<AuthorB>>, <<AuthorAUpper>>},
     git : {<<>>, <<AuthorA>>}]

ProbeCalls ==
    [fn : {"isGitRepository", "hasCommits"}, proc : GitProbeOutcomes]

IsNewBranchCalls ==
    [fn : {"isNewBranch"}, branchQuery : GitProbeOutcomes, refQuery : GitProbeOutcomes]

MaxPathLen ==
    3

PathChars ==
    {"a", "c", "A", ".", "/"}

GithubName ==
    <<".", "g", "i", "t", "h", "u", "b">>

GithubUpperX ==
    <<".", "G", "I", "T", "H", "U", "B", "/", "x">>

DirBSecret ==
    <<"d", "i", "r", "/", "b", ".", "s", "e", "c", "r", "e", "t">>

ASecretBak ==
    <<"a", ".", "s", "e", "c", "r", "e", "t", ".", "b", "a", "k">>

\* Changed-file paths: every string of up to MaxPathLen characters of
\* PathChars, and the paths the documentation uses as examples.
FilePaths ==
    UNION {[1..n -> PathChars] : n \in 0..MaxPathLen}
        \cup {CiYml, GithubName, Github2X, GithubUpperX, ASecret, DirBSecret,
              ASecretBak, ReadmeMd}

DirPatterns ==
    {GithubDir, <<"/">>, <<"a", "/">>, <<"A", "/">>, <<"a", "*", "/">>,
     <<"a", "/", "c", "/">>}

GlobPatterns ==
    {SecretGlob, <<>>, <<"*">>, <<"?">>, <<"a", "?", "c">>, <<"a", ".", "c">>,
     <<"a", "*", "c">>, <<"*", ".", "c">>, <<"a", "*">>, <<"?", "*", "/">> \o <<"c">>,
     <<"*", "/", "*">>, <<"a">>}

\* Patterns combined into longer lists, in every order and with repetitions.
ListedPatterns ==
    {GithubDir, SecretGlob, <<"a", "/">>, <<"a", "?", "c">>}

PatternLists ==
    {<<p>> : p \in DirPatterns \cup GlobPatterns}
        \cup {<<>>}
        \cup [1..2 -> ListedPatterns]
        \cup {<<SecretGlob, GithubDir, SecretGlob>>, <<GithubDir, SecretGlob, GithubDir>>}

MatchCalls ==
    [fn : {"matchesForbiddenPath"}, filePath : FilePaths, forbiddenPaths : PatternLists]

\* checkPush called on its own, under a policy with no forbidden path, the
\* default policy, or a policy with two patterns.
EngineConfigs ==
    {[forbiddenPaths |-> fp, onForbidden |-> "error", allowedVisibility |-> <<>>,
      trace |-> <<>>] : fp \in {<<>>, <<GithubDir>>, <<SecretGlob, GithubDir>>}}

CheckPushCalls ==
    [fn : {"checkPush"}, config : EngineConfigs, repo : RepoStates]

\* What gh may print besides the three visibilities in capitals: a padded
\* mixed-case name, an empty line, and a name that is no visibility.
GhPaddedPrivate ==
    <<" ", "P", "r", "i", "v", "a", "t", "e", " ", "\n">>

GhBlankLine ==
    <<"\n">>

GhSecretLine ==
    <<"S", "e", "c", "r", "e", "t", "\n">>

GhOutcomesWide ==
    GhOutcomes \cup {[spawned |-> TRUE, exitCode |-> 0, stdout |-> out] :
                        out \in {GhPaddedPrivate, GhBlankLine, GhSecretLine}}

CheckVisibilityCalls ==
    [fn : {"checkVisibility"},
     allowedVisibility : {<<>>, << <<>> >>, << <<VisPrivate>> >>,
                          << <<VisPublic, VisInternal>> >>,
                          << <<VisInternal, VisPrivate, VisPublic>> >>},
     gh : GhOutcomesWide]

\* A JavaScript value that is no Error, by its type.
Value(type) ==
    [name |-> type, exitCode |-> -1]

\* What fn, the function withSpan runs, can do: resolve with a value, or
\* throw an Error (with its message) or a value that is no Error (message
\* is then what String(value) gives).
FnOutcomes ==
    {[threw |-> FALSE, value |-> <<Value(type)>>, isError |-> FALSE, message |-> ""] :
        type \in {"undefined", "boolean", "object"}}
    \cup {[threw |-> TRUE, value |-> <<ExitError(0)>>, isError |-> TRUE,
           message |-> "Process exiting with code 0"],
          [threw |-> TRUE, value |-> <<ExitError(1)>>, isError |-> TRUE,
           message |-> "Process exiting with code 1"],
          [threw |-> TRUE, value |-> <<GitError>>, isError |-> TRUE,
           message |-> "Git command failed"],
          [threw |-> TRUE, value |-> <<ConfigError(getConfigPath)>>, isError |-> TRUE,
           message |-> "Invalid config format"],
          [threw |-> TRUE, value |-> <<Value("string")>>, isError |-> FALSE,
           message |-> "boom"]}

WithSpanCalls ==
    [fn : {"withSpan"}, outcome : FnOutcomes]

\* span.setStatus({ code, message })
setStatus(code, message) ==
    [op |-> "setStatus", code |-> code, arg |-> <<message>>]

\* span.recordException(exception)
recordException(exception) ==
    [op |-> "recordException", code |-> "", arg |-> exception]

\* span.end()
spanEnd ==
    [op |-> "end", code |-> "", arg |-> <<>>]

\* A withSpan that takes the exit signal of a successful run for a success.
withSpan_ExitZeroIsOk(outcome) ==
    IF ~outcome.threw \/ outcome.value = <<ExitError(0)>>
    THEN [span |-> <<setStatus("OK", ""), spanEnd>>,
          threw |-> outcome.threw, value |-> outcome.value]
    ELSE [span |-> <<setStatus("ERROR", outcome.message),
                     recordException(IF outcome.isError THEN outcome.value
                                     ELSE <<[name |-> "Error", exitCode |-> -1]>>),
                     spanEnd>>,
          threw |-> TRUE, value |-> outcome.value]

\* withSpan: the span operations in order, and what the caller gets (value
\* is fn's result, or the thrown value when threw).
withSpan(outcome) ==
    IF ~outcome.threw
    THEN [span |-> <<setStatus("OK", ""), spanEnd>>,
          threw |-> FALSE, value |-> outcome.value]
    ELSE [span |-> <<setStatus("ERROR", outcome.message),
                     recordException(IF outcome.isError THEN outcome.value
                                     ELSE <<[name |-> "Error", exitCode |-> -1]>>),
                     spanEnd>>,
          threw |-> TRUE, value |-> outcome.value]

FunctionCalls ==
    ExecPushCalls \cup GetDiffFilesCalls \cup GetLocalEmailCalls \cup ProbeCalls
        \cup IsNewBranchCalls \cup MatchCalls \cup CheckPushCalls
        \cup CheckVisibilityCalls \cup WithSpanCalls

InitFunctions ==
    /\ surface = "function"
    /\ force = FALSE
    /\ dryRun = FALSE
    /\ traceOpt = FALSE
    /\ gitArgs = <<>>
    /\ configFile \in {c \in ConfigFiles : ~c.exists}
    /\ pc = "call"
    /\ hookCalls = <<>>
    /\ shutdownFn = FALSE
    /\ config = <<>>
    /\ visibilityResult = <<>>
    /\ facts = <<>>
    /\ checkResult = <<>>
    /\ input = <<>>
    /\ confirmed = <<>>
    /\ via = ""
    /\ pushResult = <<>>
    /\ calls = <<>>
    /\ printed = <<>>
    /\ thrown = <<>>
    /\ toolResult = <<>>
    /\ exitCode = <<>>
    /\ probe = [isGitRepository |-> <<>>, hasCommits |-> <<>>]
    /\ ghProc = <<>>
    /\ call \in {<<c>> : c \in FunctionCalls}
    /\ returned = <<>>
    /\ cwd = ServerDir
    /\ gitRootEnv = <<>>
    /\ evaluated = <<>>
    /\ exitPath = <<>>
    /\ remoteRef = FALSE
    /\ refSeen = NoRefSeen
    /\ refChanges = 0
    /\ transports = EmptyMap
    /\ connected = <<>>
    /\ response = <<>>
    /\ requestCount = 0

\* What every call leaves alone.
callFrame ==
    <<inputVars, engineVars, hookCalls, shutdownFn, calls, printed, thrown,
      toolResult, exitCode, probe, ghProc, call, sessionVars, exitPath, raceVars,
      httpVars>>

Call_execPush ==
    /\ surface = "function"
    /\ pc = "call"
    /\ call[1].fn = "execPush"
    /\ returned' = <<execPush(call[1].args, call[1].branchQuery,
                              call[1].refExists, call[1].proc)>>
    /\ pc' = "returned"
    /\ UNCHANGED callFrame

Call_getDiffFiles ==
    /\ surface = "function"
    /\ pc = "call"
    /\ call[1].fn = "getDiffFiles"
    /\ returned' = <<getDiffFiles(call[1].isNew, call[1].hasMain, call[1].hasMaster,
                                  diffOutputLines(call[1].stdout))>>
    /\ pc' = "returned"
    /\ UNCHANGED callFrame

Call_getLocalEmail ==
    /\ surface = "function"
    /\ pc = "call"
    /\ call[1].fn = "getLocalEmail"
    /\ returned' = <<getLocalEmail(call[1].env, call[1].git)>>
    /\ pc' = "returned"
    /\ UNCHANGED callFrame

Call_isGitRepository ==
    /\ surface = "function"
    /\ pc = "call"
    /\ call[1].fn = "isGitRepository"
    /\ returned' = <<[value |-> isGitRepository(call[1].proc)]>>
    /\ pc' = "returned"
    /\ UNCHANGED callFrame

Call_hasCommits ==
    /\ surface = "function"
    /\ pc = "call"
    /\ call[1].fn = "hasCommits"
    /\ returned' = <<[value |-> hasCommits(call[1].proc)]>>
    /\ pc' = "returned"
    /\ UNCHANGED callFrame

Call_isNewBranch ==
    /\ surface = "function"
    /\ pc = "call"
    /\ call[1].fn = "isNewBranch"
    /\ returned' = <<isNewBranch(call[1].branchQuery, call[1].refQuery)>>
    /\ pc' = "returned"
    /\ UNCHANGED callFrame

Call_matchesForbiddenPath ==
    /\ surface = "function"
    /\ pc = "call"
    /\ call[1].fn = "matchesForbiddenPath"
    /\ returned' = <<[value |-> matchesForbiddenPath(call[1].filePath,
                                                     call[1].forbiddenPaths)]>>
    /\ pc' = "returned"
    /\ UNCHANGED callFrame

Call_checkPush ==
    /\ surface = "function"
    /\ pc = "call"
    /\ call[1].fn = "checkPush"
    /\ returned' = <<checkPush(call[1].config, call[1].repo)>>
    /\ pc' = "returned"
    /\ UNCHANGED callFrame

Call_checkVisibility ==
    /\ surface = "function"
    /\ pc = "call"
    /\ call[1].fn = "checkVisibility"
    /\ returned' = <<checkVisibility(call[1].allowedVisibility, call[1].gh)>>
    /\ pc' = "returned"
    /\ UNCHANGED callFrame

Call_withSpan ==
    /\ surface = "function"
    /\ pc = "call"
    /\ call[1].fn = "withSpan"
    /\ returned' = <<withSpan(call[1].outcome)>>
    /\ pc' = "returned"
    /\ UNCHANGED callFrame

NextFunctions ==
    \/ Call_execPush
    \/ Call_withSpan
    \/ Call_checkVisibility
    \/ Call_checkPush
    \/ Call_matchesForbiddenPath
    \/ Call_isGitRepository
    \/ Call_hasCommits
    \/ Call_isNewBranch
    \/ Call_getLocalEmail
    \/ Call_getDiffFiles

SpecFunctions ==
    InitFunctions /\ [][NextFunctions]_vars

(***************************************************************************)
(* The visibility rule as a whole: the three handlers, and checkVisibility *)
(* called on its own.                                                      *)
(***************************************************************************)
InitVisibility ==
    \/ Init
    \/ InitFunctions /\ call[1].fn = "checkVisibility"

NextVisibility ==
    \/ Next
    \/ Call_checkVisibility

SpecVisibility ==
    InitVisibility /\ [][NextVisibility]_vars

(***************************************************************************)
(* commands/config.ts: `safe-push config init [-f]`, run like every        *)
(* command after index.ts's preAction hook.                                *)
(***************************************************************************)
\* saveConfig writes the policy as JSONC; read back, the file is valid and
\* holds that policy.
saveConfig(cfg) ==
    [exists |-> TRUE, valid |-> TRUE, data |-> cfg]

initConfig(file, overwrite) ==
    IF file.exists /\ ~overwrite
    THEN [created |-> FALSE, file |-> file]
    ELSE [created |-> TRUE, file |-> saveConfig(getDefaultConfig)]

InitConfigInit ==
    /\ surface = "config init"
    /\ force \in BOOLEAN
    /\ dryRun = FALSE
    /\ traceOpt \in BOOLEAN
    /\ gitArgs = <<>>
    /\ configFile \in ConfigFiles
    /\ pc = "preAction"
    /\ hookCalls = <<>>
    /\ shutdownFn = FALSE
    /\ config = <<>>
    /\ visibilityResult = <<>>
    /\ facts = <<>>
    /\ checkResult = <<>>
    /\ input = <<>>
    /\ confirmed = <<>>
    /\ via = ""
    /\ pushResult = <<>>
    /\ calls = <<>>
    /\ printed = <<>>
    /\ thrown = <<>>
    /\ toolResult = <<>>
    /\ exitCode = <<>>
    /\ probe = [isGitRepository |-> <<>>, hasCommits |-> <<>>]
    /\ ghProc = <<>>
    /\ call = <<>>
    /\ returned = <<>>
    /\ cwd = ServerDir
    /\ gitRootEnv = <<>>
    /\ evaluated = <<>>
    /\ exitPath = <<>>
    /\ remoteRef = FALSE
    /\ refSeen = NoRefSeen
    /\ refChanges = 0
    /\ transports = EmptyMap
    /\ connected = <<>>
    /\ response = <<>>
    /\ requestCount = 0

\* The init action: initConfig(undefined, options.force), then the report; a
\* failure to write the file is caught, reported, and ends the process with
\* process.exit(1) from inside the handler.
Config_Init ==
    /\ surface = "config init"
    /\ pc = "initConfig"
    /\ calls' = Append(calls, "initConfig")
    /\ \E writable \in BOOLEAN :
          LET result == initConfig(configFile, force)
          IN  IF result.created /\ ~writable
              THEN /\ printed' = Append(printed, "Failed to initialize config")
                   /\ exitCode' = <<1>>
                   /\ exitPath' = <<"process.exit">>
                   /\ pc' = "exited"
                   /\ UNCHANGED configFile
              ELSE /\ configFile' = result.file
                   /\ printed' = IF result.created
                                 THEN Append(printed, "Configuration file created")
                                 ELSE printed \o <<"Configuration file already exists",
                                                   "Use --force to overwrite">>
                   /\ pc' = "finally"
                   /\ UNCHANGED <<exitCode, exitPath>>
    /\ UNCHANGED <<call, returned, sessionVars, raceVars, httpVars, surface, force, dryRun, traceOpt, gitArgs,
                   engineVars, hookCalls, shutdownFn, thrown, toolResult, probe, ghProc>>

NextConfigInit ==
    \/ Index_PreAction
    \/ Config_Init
    \/ Index_Exit

SpecConfigInit ==
    InitConfigInit /\ [][NextConfigInit]_vars

(***************************************************************************)
(* The MCP server process (mcp.ts): the push tool's handler is invoked     *)
(* several times in one process.  The handler's locals are fresh on every  *)
(* invocation; the process's working directory is not.                     *)
(***************************************************************************)
MaxInvocations ==
    2

\* The directories that exist, as the names from the root.
ExistingDirs ==
    {<<>>, <<"srv">>, <<"srv", "repo">>, <<"srv", "work">>, <<"srv", "work", "work">>}

\* The values SAFE_PUSH_GIT_ROOT may hold: an absolute path or a path relative
\* to the working directory.
GitRootPaths ==
    {[absolute |-> TRUE, names |-> <<"srv", "repo">>],
     [absolute |-> TRUE, names |-> <<"gone">>],
     [absolute |-> FALSE, names |-> <<"repo">>],
     [absolute |-> FALSE, names |-> <<"work">>],
     [absolute |-> FALSE, names |-> <<".">>]}

\* path.resolve: a relative path is taken from the current working directory,
\* and "." and ".." are resolved.
RECURSIVE normalizeOnto(_, _)
normalizeOnto(base, names) ==
    IF names = <<>> THEN base
    ELSE IF Head(names) = "." THEN normalizeOnto(base, Tail(names))
    ELSE IF Head(names) = ".."
    THEN normalizeOnto(IF base = <<>> THEN <<>> ELSE SubSeq(base, 1, Len(base) - 1),
                       Tail(names))
    ELSE normalizeOnto(Append(base, Head(names)), Tail(names))

pathResolve(workingDir, p) ==
    IF p.absolute THEN normalizeOnto(<<>>, p.names)
    ELSE normalizeOnto(workingDir, p.names)

InitMcpSession ==
    /\ surface = "mcp"
    /\ force \in BOOLEAN
    /\ dryRun \in BOOLEAN
    /\ traceOpt = FALSE
    /\ gitArgs = <<>>
    /\ configFile \in {c \in ConfigFiles :
                          c.exists /\ c.valid => /\ c.data.forbiddenPaths = <<GithubDir>>
                                                /\ c.data.onForbidden = "prompt"}
    /\ pc = "chdir"
    /\ hookCalls = <<>>
    /\ shutdownFn = FALSE
    /\ config = <<>>
    /\ visibilityResult = <<>>
    /\ facts = <<>>
    /\ checkResult = <<>>
    /\ input = <<>>
    /\ confirmed = <<>>
    /\ via = ""
    /\ pushResult = <<>>
    /\ calls = <<>>
    /\ printed = <<>>
    /\ thrown = <<>>
    /\ toolResult = <<>>
    /\ exitCode = <<>>
    /\ probe = [isGitRepository |-> <<>>, hasCommits |-> <<>>]
    /\ ghProc = <<>>
    /\ call = <<>>
    /\ returned = <<>>
    /\ cwd = ServerDir
    /\ gitRootEnv \in {<<>>} \cup {<<p>> : p \in GitRootPaths}
    /\ evaluated = <<>>
    /\ exitPath = <<>>
    /\ remoteRef = FALSE
    /\ refSeen = NoRefSeen
    /\ refChanges = 0
    /\ transports = EmptyMap
    /\ connected = <<>>
    /\ response = <<>>
    /\ requestCount = 0

\* The handler's first statement: with SAFE_PUSH_GIT_ROOT set, the process
\* changes into path.resolve(gitRoot); a directory that does not exist makes
\* process.chdir throw, which the handler's outer catch reports.
Mcp_Chdir ==
    /\ surface = "mcp"
    /\ pc = "chdir"
    /\ IF gitRootEnv = <<>>
       THEN /\ evaluated' = Append(evaluated, <<cwd>>)
            /\ pc' = "isGitRepository"
            /\ UNCHANGED <<cwd, toolResult>>
       ELSE LET target == pathResolve(cwd, gitRootEnv[1])
            IN  IF target \in ExistingDirs
                THEN /\ cwd' = target
                     /\ evaluated' = Append(evaluated, <<target>>)
                     /\ pc' = "isGitRepository"
                     /\ UNCHANGED toolResult
                ELSE /\ toolResult' = <<ToolResult(TRUE, "Unexpected error")>>
                     /\ evaluated' = Append(evaluated, <<>>)
                     /\ pc' = "returned"
                     /\ UNCHANGED cwd
    /\ UNCHANGED <<call, returned, gitRootEnv, exitPath, raceVars, httpVars, inputVars, engineVars, hookCalls,
                   shutdownFn, calls, printed, thrown, exitCode, probe, ghProc>>

\* The server receives the next call of the tool: the handler starts again
\* with fresh locals in the same process.
Mcp_NextInvocation ==
    /\ surface = "mcp"
    /\ pc = "returned"
    /\ evaluated # <<>>
    /\ Len(evaluated) < MaxInvocations
    /\ pc' = "chdir"
    /\ config' = <<>>
    /\ visibilityResult' = <<>>
    /\ facts' = <<>>
    /\ checkResult' = <<>>
    /\ via' = ""
    /\ pushResult' = <<>>
    /\ calls' = <<>>
    /\ toolResult' = <<>>
    /\ probe' = [isGitRepository |-> <<>>, hasCommits |-> <<>>]
    /\ ghProc' = <<>>
    /\ UNCHANGED <<unitVars, inputVars, input, confirmed, hookCalls, shutdownFn, printed,
                   thrown, exitCode>>

NextMcpSession ==
    \/ Mcp_Chdir
    \/ Mcp_IsGitRepository
    \/ Mcp_HasCommits
    \/ Mcp_LoadConfig
    \/ Mcp_CheckVisibility
    \/ Mcp_Force
    \/ Mcp_CheckPush
    \/ Mcp_ExecPush
    \/ Mcp_NextInvocation

SpecMcpSession ==
    InitMcpSession /\ [][NextMcpSession]_vars

(***************************************************************************)
(* One rule evaluation and the push it authorises, query by query, while   *)
(* another process may create or delete the remote-tracking ref.           *)
(* checkPush asks isNewBranch(), getDiffFiles asks it again to choose the  *)
(* diff base, and execPush asks it a third time to decide on -u.           *)
(***************************************************************************)
MaxRefChanges ==
    2

\* The frame of the query steps: everything but what they record.
queryFrame ==
    <<inputVars, config, visibilityResult, input, confirmed, via, hookCalls, shutdownFn,
      printed, thrown, toolResult, exitCode, probe, ghProc, call, returned, sessionVars,
      exitPath, httpVars>>

\* git rev-parse --verify origin/<branch>: exits 0 when the ref exists.
revParseVerify(refExists) ==
    [spawned |-> TRUE, exitCode |-> IF refExists THEN 0 ELSE 128]

\* The new-branch status a query obtains at this moment.
queryIsNewBranch ==
    isNewBranch(revParseVerify(TRUE), revParseVerify(remoteRef)).value[1]

InitRefRace ==
    /\ surface = "push"
    /\ force = FALSE
    /\ dryRun = FALSE
    /\ traceOpt = FALSE
    /\ gitArgs \in {<<>>, <<FlagNoVerify>>}
    /\ configFile \in {c \in ConfigFiles : ~c.exists}
    /\ pc = "checkPush.isNewBranch"
    /\ hookCalls = <<>>
    /\ shutdownFn = FALSE
    /\ config \in {<<c>> : c \in EngineConfigs}
    /\ visibilityResult = <<>>
    /\ facts = <<>>
    /\ checkResult = <<>>
    /\ input = <<>>
    /\ confirmed = <<>>
    /\ via = ""
    /\ pushResult = <<>>
    /\ calls = <<>>
    /\ printed = <<>>
    /\ thrown = <<>>
    /\ toolResult = <<>>
    /\ exitCode = <<>>
    /\ probe = [isGitRepository |-> <<TRUE>>, hasCommits |-> <<TRUE>>]
    /\ ghProc = <<>>
    /\ call = <<>>
    /\ returned = <<>>
    /\ cwd = ServerDir
    /\ gitRootEnv = <<>>
    /\ evaluated = <<>>
    /\ exitPath = <<>>
    /\ remoteRef \in BOOLEAN
    /\ refSeen = NoRefSeen
    /\ refChanges = 0
    /\ transports = EmptyMap
    /\ connected = <<>>
    /\ response = <<>>
    /\ requestCount = 0

\* const newBranch = await isNewBranch();   (checker.ts, the second fact)
CheckPush_IsNewBranch ==
    /\ pc = "checkPush.isNewBranch"
    /\ refSeen' = [refSeen EXCEPT !.verdict = <<queryIsNewBranch>>]
    /\ calls' = Append(calls, "isNewBranch")
    /\ pc' = "checkPush.getDiffFiles"
    /\ UNCHANGED <<queryFrame, facts, checkResult, pushResult, remoteRef, refChanges>>

\* const diffFiles = await getDiffFiles();  then the details and the rule chain.
\* getDiffFiles asks isNewBranch(remote) itself before it chooses the base.
CheckPush_GetDiffFiles ==
    /\ pc = "checkPush.getDiffFiles"
    /\ \E author \in AuthorEmails, refs \in BaseRefs, lines \in DiffOutputs :
          LET isNew == queryIsNewBranch
              diff == getDiffFiles(isNew, refs.hasMain, refs.hasMaster, lines)
              newBranch == refSeen.verdict[1]
              result == checkPushResult(config[1], BranchFeat, newBranch, author,
                                        AuthorA, diff.files)
          IN  /\ refSeen' = [refSeen EXCEPT !.diffBase = <<isNew>>]
              /\ facts' = <<[isNewBranch |-> newBranch, authorEmail |-> author,
                             localEmail |-> AuthorA, diffFiles |-> diff.files]>>
              /\ checkResult' = <<result>>
              /\ pc' = IF result.allowed THEN "execPush.isNewBranch" ELSE "returned"
    /\ calls' = Append(calls, "getDiffFiles")
    /\ UNCHANGED <<queryFrame, pushResult, remoteRef, refChanges>>

\* execPush without a user refspec: const isNew = await isNewBranch(remote);
ExecPush_IsNewBranch ==
    /\ pc = "execPush.isNewBranch"
    /\ \E proc \in PushProcessOutcomes :
          LET r == execPush(gitArgs, revParseVerify(TRUE), remoteRef, proc)
          IN  pushResult' = r.result
    /\ refSeen' = [refSeen EXCEPT !.push = <<queryIsNewBranch>>]
    /\ calls' = Append(calls, "execPush")
    /\ pc' = "returned"
    /\ UNCHANGED <<queryFrame, facts, checkResult, remoteRef, refChanges>>

\* Another process fetches, pushes or prunes: origin/<branch> appears or goes.
Remote_RefChanges ==
    /\ pc # "returned"
    /\ refChanges < MaxRefChanges
    /\ remoteRef' = ~remoteRef
    /\ refChanges' = refChanges + 1
    /\ UNCHANGED <<queryFrame, facts, checkResult, pushResult, calls, pc, refSeen>>

NextRefRace ==
    \/ CheckPush_IsNewBranch
    \/ CheckPush_GetDiffFiles
    \/ ExecPush_IsNewBranch
    \/ Remote_RefChanges

SpecRefRace ==
    InitRefRace /\ [][NextRefRace]_vars

(***************************************************************************)
(* The push command alone, with the scheduling the runtime gives it: every *)
(* step but the prompt awaits external processes that return, so it is     *)
(* taken once it is enabled; the prompt waits for the operator.            *)
(***************************************************************************)
InitPushLive ==
    /\ Init
    /\ surface = "push"

\* The handler's steps that wait for nothing but processes of their own.
NextPushUnattended ==
    \/ Index_PreAction
    \/ Push_IsGitRepository
    \/ Push_HasCommits
    \/ Push_LoadConfig
    \/ Push_CheckVisibility
    \/ Push_Force
    \/ Push_CheckPush
    \/ Push_Verdict
    \/ Push_DryRun
    \/ Push_ExecPush
    \/ Index_Exit

NextPushLive ==
    \/ NextPushUnattended
    \/ Push_PromptConfirm

SpecPushLive ==
    InitPushLive /\ [][NextPushLive]_vars /\ WF_vars(NextPushUnattended)

(***************************************************************************)
(* The MCP HTTP server (startHttpServer): one handler per request on a     *)
(* table of sessions.  The transport generates the session id while it     *)
(* handles an initialize request and calls onsessioninitialized; it calls  *)
(* onclose when it closes.                                                 *)
(***************************************************************************)
MaxTransports ==
    2

MaxRequests ==
    4

\* The mcp-session-id header: absent, or an id (the last one is never issued).
SessionIdHeaders ==
    {<<>>} \cup {<<sid>> : sid \in 1..(MaxTransports + 1)}

\* What a POST body is: an initialize request, another JSON-RPC message, or
\* text JSON.parse rejects.
PostBodies ==
    {"initialize", "message", "malformed"}

\* Everything the HTTP handlers leave alone.
httpFrame ==
    <<inputVars, engineVars, hookCalls, shutdownFn, calls, printed, thrown, toolResult,
      exitCode, probe, ghProc, pc, call, returned, sessionVars, exitPath, raceVars>>

InitHttp ==
    /\ surface = "mcp http"
    /\ force = FALSE
    /\ dryRun = FALSE
    /\ traceOpt = FALSE
    /\ gitArgs = <<>>
    /\ configFile \in {c \in ConfigFiles : ~c.exists}
    /\ pc = "listen"
    /\ hookCalls = <<>>
    /\ shutdownFn = FALSE
    /\ config = <<>>
    /\ visibilityResult = <<>>
    /\ facts = <<>>
    /\ checkResult = <<>>
    /\ input = <<>>
    /\ confirmed = <<>>
    /\ via = ""
    /\ pushResult = <<>>
    /\ calls = <<>>
    /\ printed = <<>>
    /\ thrown = <<>>
    /\ toolResult = <<>>
    /\ exitCode = <<>>
    /\ probe = [isGitRepository |-> <<>>, hasCommits |-> <<>>]
    /\ ghProc = <<>>
    /\ call = <<>>
    /\ returned = <<>>
    /\ cwd = ServerDir
    /\ gitRootEnv = <<>>
    /\ evaluated = <<>>
    /\ exitPath = <<>>
    /\ remoteRef = FALSE
    /\ refSeen = NoRefSeen
    /\ refChanges = 0
    /\ transports = EmptyMap
    /\ connected = <<>>
    /\ response = <<>>
    /\ requestCount = 0

\* transports.has(sessionId), with the header's truthiness test before it.
hasSession(sessionId) ==
    sessionId # <<>> /\ sessionId[1] \in DOMAIN transports

\* transports.set(sid, transport)
mapSet(map, sid, transport) ==
    [k \in DOMAIN map \cup {sid} |-> IF k = sid THEN transport ELSE map[k]]

\* transports.delete(sid)
mapDelete(map, sid) ==
    [k \in DOMAIN map \ {sid} |-> map[k]]

\* sessionIdGenerator: () => randomUUID(), an id no transport has had.
randomUUID ==
    Cardinality({t \in 1..Len(connected) : connected[t].sessionId # <<>>}) + 1

\* What the handler did with a request.
Handled(method, sessionId, body, status, transport, created) ==
    [method |-> method, sessionId |-> sessionId, body |-> body,
     known |-> hasSession(sessionId), status |-> status, transport |-> transport,
     created |-> created]

\* transport.onclose: the entry of the transport's own session id goes.
onclose(t) ==
    IF connected[t].sessionId # <<>>
    THEN mapDelete(transports, connected[t].sessionId[1])
    ELSE transports

\* url.pathname !== "/mcp"
Http_NotFound ==
    /\ pc = "listen"
    /\ requestCount < MaxRequests
    /\ \E method \in {"POST", "GET", "DELETE"}, sessionId \in SessionIdHeaders :
          response' = <<Handled(method, sessionId, "", 404, 0, FALSE) @@
                        [path |-> "/other"]>>
    /\ requestCount' = requestCount + 1
    /\ UNCHANGED <<httpFrame, transports, connected>>

\* method === "POST"
Http_Post ==
    /\ pc = "listen"
    /\ requestCount < MaxRequests
    /\ \E sessionId \in SessionIdHeaders, body \in PostBodies, accepted \in BOOLEAN :
          IF body = "malformed"
          THEN \* JSON.parse throws; the catch answers 500
               /\ response' = <<Handled("POST", sessionId, body, 500, 0, FALSE) @@
                                 [path |-> "/mcp"]>>
               /\ UNCHANGED <<transports, connected>>
          ELSE IF hasSession(sessionId)
          THEN /\ response' = <<Handled("POST", sessionId, body, 200,
                                         transports[sessionId[1]], FALSE) @@
                                 [path |-> "/mcp"]>>
               /\ UNCHANGED <<transports, connected>>
          ELSE IF sessionId = <<>> /\ body = "initialize"
          THEN /\ Len(connected) < MaxTransports
               /\ LET t == Len(connected) + 1
                      sid == randomUUID
                  IN  /\ connected' = Append(connected,
                                             [sessionId |-> IF accepted THEN <<sid>> ELSE <<>>,
                                              closed |-> FALSE])
                      /\ transports' = IF accepted THEN mapSet(transports, sid, t)
                                       ELSE transports
                      /\ response' = <<Handled("POST", sessionId, body,
                                                IF accepted THEN 200 ELSE 406, t, TRUE) @@
                                        [path |-> "/mcp"]>>
          ELSE /\ response' = <<Handled("POST", sessionId, body, 400, 0, FALSE) @@
                                 [path |-> "/mcp"]>>
               /\ UNCHANGED <<transports, connected>>
    /\ requestCount' = requestCount + 1
    /\ UNCHANGED httpFrame

\* method === "GET"
Http_Get ==
    /\ pc = "listen"
    /\ requestCount < MaxRequests
    /\ \E sessionId \in SessionIdHeaders :
          response' = <<(IF ~hasSession(sessionId)
                         THEN Handled("GET", sessionId, "", 400, 0, FALSE)
                         ELSE Handled("GET", sessionId, "", 200,
                                      transports[sessionId[1]], FALSE)) @@
                        [path |-> "/mcp"]>>
    /\ requestCount' = requestCount + 1
    /\ UNCHANGED <<httpFrame, transports, connected>>

\* method === "DELETE": the session's transport handles it and closes.
Http_Delete ==
    /\ pc = "listen"
    /\ requestCount < MaxRequests
    /\ \E sessionId \in SessionIdHeaders :
          IF ~hasSession(sessionId)
          THEN /\ response' = <<Handled("DELETE", sessionId, "", 400, 0, FALSE) @@
                                 [path |-> "/mcp"]>>
               /\ UNCHANGED <<transports, connected>>
          ELSE LET t == transports[sessionId[1]]
               IN  /\ response' = <<Handled("DELETE", sessionId, "", 200, t, FALSE) @@
                                     [path |-> "/mcp"]>>
                   /\ connected' = [connected EXCEPT ![t].closed = TRUE]
                   /\ transports' = onclose(t)
    /\ requestCount' = requestCount + 1
    /\ UNCHANGED httpFrame

\* Any other method.
Http_MethodNotAllowed ==
    /\ pc = "listen"
    /\ requestCount < MaxRequests
    /\ \E sessionId \in SessionIdHeaders :
          response' = <<Handled("PUT", sessionId, "", 405, 0, FALSE) @@
                        [path |-> "/mcp"]>>
    /\ requestCount' = requestCount + 1
    /\ UNCHANGED <<httpFrame, transports, connected>>

\* A transport closes for a reason of its own (its server closes it).
Transport_Close ==
    /\ pc = "listen"
    /\ \E t \in 1..Len(connected) :
          /\ ~connected[t].closed
          /\ connected' = [connected EXCEPT ![t].closed = TRUE]
          /\ transports' = onclose(t)
    /\ UNCHANGED <<httpFrame, response, requestCount>>

NextHttp ==
    \/ Http_NotFound
    \/ Http_Post
    \/ Http_Get
    \/ Http_Delete
    \/ Http_MethodNotAllowed
    \/ Transport_Close

SpecHttp ==
    InitHttp /\ [][NextHttp]_vars

(***************************************************************************)
(* Properties.                                                             *)
(***************************************************************************)
Range(seq) ==
    {seq[i] : i \in 1..Len(seq)}

\* Some changed file of the gathered facts matches some configured pattern.
TouchesForbiddenPath ==
    /\ facts # <<>>
    /\ config # <<>>
    /\ \E i \in 1..Len(facts[1].diffFiles), j \in 1..Len(config[1].forbiddenPaths) :
          matchesPattern(facts[1].diffFiles[i], config[1].forbiddenPaths[j])

\* Two strings are equal up to the case of their letters.
SameLetter(c, d) ==
    \/ c = d
    \/ \E k \in 1..Len(UpperLetters) :
          {c, d} = {UpperLetters[k], LowerLetters[k]}

EqualIgnoringCase(a, b) ==
    /\ Len(a) = Len(b)
    /\ \A i \in 1..Len(a) : SameLetter(a[i], b[i])

\* The CheckResult is still the one checkPush returned (the check command
\* rewrites it when it applies the visibility result).
VerdictIsCheckPushs ==
    /\ checkResult # <<>>
    /\ ~(surface = "check" /\ pc \in {"report", "finally", "exited"})

\* C1: whenever a changed file matches a forbidden pattern, checkPush returns
\* allowed = FALSE with details.hasForbiddenChanges = TRUE, whatever the branch
\* state and the two emails are.
C1_ForbiddenAlwaysBlocks ==
    (VerdictIsCheckPushs /\ TouchesForbiddenPath)
        => /\ ~checkResult[1].allowed
           /\ checkResult[1].details.hasForbiddenChanges

\* C1 witness: a forbidden change on a new branch whose last commit is the
\* operator's own, and the verdict is a block.
C1_Witness ==
    /\ VerdictIsCheckPushs
    /\ TouchesForbiddenPath
    /\ facts[1].isNewBranch
    /\ facts[1].authorEmail = facts[1].localEmail
    /\ ~checkResult[1].allowed

\* C2: checkPush returns allowed = TRUE exactly when no changed file matches a
\* forbidden pattern and (the branch is new or the author email equals the
\* local email up to letter case).
C2_AllowedIff ==
    VerdictIsCheckPushs
        => (checkResult[1].allowed
              <=> /\ ~TouchesForbiddenPath
                  /\ \/ facts[1].isNewBranch
                     \/ EqualIgnoringCase(facts[1].authorEmail, facts[1].localEmail))

\* C2 witness: an existing branch without forbidden changes whose two emails
\* differ only in letter case is allowed.
C2_Witness ==
    /\ VerdictIsCheckPushs
    /\ ~TouchesForbiddenPath
    /\ ~facts[1].isNewBranch
    /\ facts[1].authorEmail # facts[1].localEmail
    /\ EqualIgnoringCase(facts[1].authorEmail, facts[1].localEmail)
    /\ checkResult[1].allowed

\* The handler has invoked the operation.
Invoked(op) ==
    op \in Range(calls)

\* The invocation ended blocked: the CLI left the handler with ExitError(1)
\* (exit code 1 once the process has exited), the MCP tool returned isError.
EndedBlocked ==
    IF surface = "mcp"
    THEN /\ pc = "returned"
         /\ toolResult # <<>>
         /\ toolResult[1].isError
    ELSE /\ pc \in {"finally", "exited"}
         /\ thrown = <<ExitError(1)>>
         /\ pc = "exited" => exitCode = <<1>>

\* gh answered, and this is the visibility its output names.
GhAnswered ==
    /\ ghProc # <<>>
    /\ ghProc[1].spawned
    /\ ghProc[1].exitCode = 0

ActualVisibility ==
    CASE ghProc[1].stdout = GhPUBLIC -> VisPublic
      [] ghProc[1].stdout = GhPRIVATE -> VisPrivate
      [] ghProc[1].stdout = GhInternalLine -> VisInternal

VisibilityMismatch ==
    /\ config # <<>>
    /\ config[1].allowedVisibility # <<>>
    /\ config[1].allowedVisibility[1] # <<>>
    /\ GhAnswered
    /\ ActualVisibility \notin Range(config[1].allowedVisibility[1])

\* C3: on the CLI push command and the MCP push tool, a repository whose
\* visibility is not in a non-empty allowedVisibility ends the invocation
\* blocked and execPush is never invoked, with or without force.
C3_VisibilityOverridesForce ==
    (surface \in {"push", "mcp"} /\ VisibilityMismatch)
        => /\ EndedBlocked
           /\ ~Invoked("execPush")
           /\ ~Invoked("checkPush")
           /\ pushResult = <<>>

\* C3 witness: a forced CLI push of a public repository under
\* allowedVisibility = ["private"] has exited with code 1.
C3_Witness ==
    /\ surface = "push"
    /\ force
    /\ VisibilityMismatch
    /\ config[1].allowedVisibility = << <<VisPrivate>> >>
    /\ ActualVisibility = VisPublic
    /\ pc = "exited"
    /\ exitCode = <<1>>

\* gh exited non-zero or could not be spawned.
GhFailed ==
    /\ ghProc # <<>>
    /\ ~(ghProc[1].spawned /\ ghProc[1].exitCode = 0)

\* C4: when a visibility policy is configured and getRepoVisibility fails, the
\* push command and the MCP tool end blocked without invoking execPush (force
\* or not), and the check command's result has allowed = FALSE,
\* repoVisibility = "unknown" and visibilityAllowed = FALSE and exits with 1.
C4_VisibilityFailureBlocks ==
    GhFailed
        => /\ surface \in {"push", "mcp"}
              => /\ EndedBlocked
                 /\ ~Invoked("execPush")
                 /\ pushResult = <<>>
           /\ surface = "check"
              => /\ pc \in {"report", "finally", "exited"}
                 /\ ~checkResult[1].allowed
                 /\ checkResult[1].details.repoVisibility = <<VisUnknown>>
                 /\ checkResult[1].details.visibilityAllowed = <<FALSE>>
                 /\ pc \in {"finally", "exited"} => thrown = <<ExitError(1)>>
                 /\ pc = "exited" => exitCode = <<1>>

\* C4 witness: the check command, on a push checkPush allowed, could not spawn
\* gh and has exited with code 1.
C4_Witness ==
    /\ surface = "check"
    /\ GhFailed
    /\ ~ghProc[1].spawned
    /\ ~TouchesForbiddenPath
    /\ facts[1].isNewBranch
    /\ pc = "exited"
    /\ exitCode = <<1>>

\* C5: with the dry-run flag set, execPush is never invoked by the push
\* command or the MCP push tool, on the forced, the allowed and the confirmed
\* path alike.
C5_DryRunNeverPushes ==
    (surface \in {"push", "mcp"} /\ dryRun)
        => /\ ~Invoked("execPush")
           /\ pc # "execPush"
           /\ pushResult = <<>>

\* C5 witness: a dry run in which the operator confirmed the override prompt
\* has exited.
C5_Witness ==
    /\ surface = "push"
    /\ dryRun
    /\ confirmed = <<TRUE>>
    /\ via = "confirmed"
    /\ pc = "exited"

\* The CLI push command printed one of its would-push reports.
DryRunReported ==
    \E m \in {"Dry run: would push (checks bypassed)",
              "Dry run: would push (user confirmed)",
              "Dry run: would push"} : m \in Range(printed)

PushSucceeded ==
    /\ pushResult # <<>>
    /\ pushResult[1].success

\* C6: a CLI push invocation that has exited has exit code 0 exactly when a
\* push was executed and reported success or a dry run reached its would-push
\* report, and exit code 1 otherwise (block, failed push, declined override);
\* after execPush returned, the code is 0 iff result.success.
C6_PushExitCode ==
    (surface = "push" /\ pc = "exited")
        => /\ exitCode \in {<<0>>, <<1>>}
           /\ exitCode = <<0>> <=> (PushSucceeded \/ DryRunReported)
           /\ pushResult # <<>> => (exitCode = <<0>> <=> pushResult[1].success)
           /\ confirmed = <<FALSE>> => exitCode = <<1>>
           /\ (checkResult # <<>> /\ ~checkResult[1].allowed /\ confirmed # <<TRUE>>)
                 => exitCode = <<1>>
           /\ (visibilityResult # <<>> /\ ~visibilityResult[1].allowed)
                 => exitCode = <<1>>

\* C6 witness: a forced dry run has exited with code 0 without a push.
C6_Witness ==
    /\ surface = "push"
    /\ pc = "exited"
    /\ force
    /\ DryRunReported
    /\ pushResult = <<>>
    /\ exitCode = <<0>>

\* The repository check or the commit check answered "no".
FailFastCase ==
    \/ probe.isGitRepository = <<FALSE>>
    \/ probe.isGitRepository = <<TRUE>> /\ probe.hasCommits = <<FALSE>>

\* The operations that must not follow a failed repository / commit check.
LaterOperations ==
    {"loadConfig", "checkVisibility", "checkPush", "promptConfirm", "execPush"}

\* The repository check precedes the commit check.
RepoCheckFirst ==
    \A i \in 1..Len(calls) :
       calls[i] = "hasCommits" => \E j \in 1..(i - 1) : calls[j] = "isGitRepository"

\* C7 as stated: after a failed repository or commit check the push command
\* ends with exit code 1 (isError on MCP), none of loadConfig, checkVisibility,
\* checkPush, promptConfirm, execPush has been invoked in the invocation, and
\* the repository check precedes the commit check.
C7_Original ==
    /\ (surface \in {"push", "mcp"} /\ FailFastCase)
          => /\ EndedBlocked
             /\ \A op \in LaterOperations :
                   ~Invoked(op) /\ op \notin Range(hookCalls)
    /\ surface \in {"push", "mcp"} => RepoCheckFirst

\* C7 amended: after a failed repository or commit check the push command
\* ends with exit code 1 (isError on MCP) and the handler has invoked none of
\* loadConfig, checkVisibility, checkPush, promptConfirm, execPush; the only
\* invocation of loadConfig is the one index.ts's preAction hook makes, before
\* the handler starts, when --trace is not given; the repository check
\* precedes the commit check.
C7_FailFast ==
    /\ (surface \in {"push", "mcp"} /\ FailFastCase)
          => /\ EndedBlocked
             /\ \A op \in LaterOperations : ~Invoked(op)
             /\ pushResult = <<>> /\ config = <<>> /\ checkResult = <<>>
             /\ hookCalls = (IF surface = "push" /\ ~traceOpt
                             THEN <<"loadConfig">> ELSE <<>>)
    /\ surface \in {"push", "mcp"} => RepoCheckFirst

\* C7 witness: a CLI push in a repository without commits has exited with 1.
C7_Witness ==
    /\ surface = "push"
    /\ probe.isGitRepository = <<TRUE>>
    /\ probe.hasCommits = <<FALSE>>
    /\ calls = <<"isGitRepository", "hasCommits">>
    /\ pc = "exited"
    /\ exitCode = <<1>>

\* C8: the CLI push command invokes promptConfirm only when force is unset,
\* the verdict is blocked, onForbidden is "prompt" and hasForbiddenChanges is
\* true; a verdict blocked by authorship alone ends with exit code 1 and no
\* prompt, whatever onForbidden is.
C8_PromptOnlyForPathBlocks ==
    surface = "push"
        => /\ (Invoked("promptConfirm") \/ pc = "promptConfirm")
                 => /\ ~force
                    /\ checkResult # <<>>
                    /\ ~checkResult[1].allowed
                    /\ config[1].onForbidden = "prompt"
                    /\ checkResult[1].details.hasForbiddenChanges
                    /\ TouchesForbiddenPath
           /\ (checkResult # <<>> /\ ~checkResult[1].allowed
                 /\ ~checkResult[1].details.hasForbiddenChanges)
                 => /\ ~Invoked("promptConfirm")
                    /\ confirmed = <<>>
                    /\ pc \in {"verdict", "finally", "exited"}
                    /\ pc \in {"finally", "exited"} => thrown = <<ExitError(1)>>
                    /\ pc = "exited" => exitCode = <<1>>

\* C8 witness: with onForbidden = "prompt", a push blocked only because the
\* last commit is someone else's has exited with code 1 and no prompt.
C8_Witness ==
    /\ surface = "push"
    /\ config # <<>>
    /\ config[1].onForbidden = "prompt"
    /\ checkResult # <<>>
    /\ ~checkResult[1].allowed
    /\ ~TouchesForbiddenPath
    /\ ~Invoked("promptConfirm")
    /\ pc = "exited"
    /\ exitCode = <<1>>

\* C9: when promptConfirm returned false the push command ends with exit
\* code 1 and execPush is not invoked; when it returned true the flow goes on
\* to the dry-run report (dry run) or to execPush (otherwise).
C9_PromptOutcome ==
    surface = "push"
        => /\ confirmed = <<FALSE>>
                 => /\ pc \in {"finally", "exited"}
                    /\ thrown = <<ExitError(1)>>
                    /\ pc = "exited" => exitCode = <<1>>
                    /\ ~Invoked("execPush")
                    /\ pushResult = <<>>
                    /\ ~DryRunReported
           /\ confirmed = <<TRUE>>
                 => /\ pc \in {"dryRun", "execPush", "finally", "exited"}
                    /\ pc \in {"finally", "exited"}
                          => IF dryRun
                             THEN /\ "Dry run: would push (user confirmed)" \in Range(printed)
                                  /\ ~Invoked("execPush")
                                  /\ thrown = <<ExitError(0)>>
                             ELSE Invoked("execPush")

\* C9 witness: the operator declined the override prompt and the command has
\* exited with code 1 without a push.
C9_Witness ==
    /\ surface = "push"
    /\ Invoked("promptConfirm")
    /\ confirmed = <<FALSE>>
    /\ input # <<>>
    /\ ~Invoked("execPush")
    /\ pc = "exited"
    /\ exitCode = <<1>>

\* The line is "y" or "yes" in any letter case between runs of white space.
Affirmative(line) ==
    \E i \in 1..Len(line), j \in 1..Len(line) :
       /\ i <= j
       /\ \A k \in 1..(i - 1) : line[k] \in WhiteSpace
       /\ \A k \in (j + 1)..Len(line) : line[k] \in WhiteSpace
       /\ \/ EqualIgnoringCase(SubSeq(line, i, j), <<"y">>)
          \/ EqualIgnoringCase(SubSeq(line, i, j), <<"y", "e", "s">>)

\* C10: promptConfirm returns true exactly when there is a first line and,
\* trimmed and lower-cased, it is "y" or "yes"; any other first line and an
\* input without lines give false; later lines have no influence.
C10_FirstLineDecides ==
    (surface = "promptConfirm" /\ pc = "returned")
        => /\ confirmed # <<>>
           /\ confirmed[1] <=> (Len(input) >= 1 /\ Affirmative(input[1]))
           /\ Len(input) = 0 => ~confirmed[1]

\* C10 witness: the first line declines, a later line says yes, and
\* promptConfirm returned false.
C10_Witness ==
    /\ surface = "promptConfirm"
    /\ pc = "returned"
    /\ Len(input) = 2
    /\ ~Affirmative(input[1])
    /\ Affirmative(input[2])
    /\ confirmed = <<FALSE>>

\* C11: the MCP push tool never calls promptConfirm nor reads operator input;
\* its result carries the "re-run with force: true" hint exactly when the
\* verdict is blocked, onForbidden is "prompt" and hasForbiddenChanges is
\* true, and that result is an isError result.
C11_McpNeverPrompts ==
    surface = "mcp"
        => /\ ~Invoked("promptConfirm")
           /\ pc # "promptConfirm"
           /\ input = <<>>
           /\ confirmed = <<>>
           /\ toolResult # <<>>
                 => /\ toolResult[1].forceHint
                          <=> /\ checkResult # <<>>
                              /\ ~checkResult[1].allowed
                              /\ config[1].onForbidden = "prompt"
                              /\ checkResult[1].details.hasForbiddenChanges
                              /\ TouchesForbiddenPath
                    /\ toolResult[1].forceHint => toolResult[1].isError
                    /\ (checkResult # <<>> /\ ~checkResult[1].allowed)
                          => toolResult[1].isError

\* C11 witness: the MCP tool returned a path-based block under
\* onForbidden = "prompt" with the force hint.
C11_Witness ==
    /\ surface = "mcp"
    /\ pc = "returned"
    /\ checkResult # <<>>
    /\ ~checkResult[1].allowed
    /\ TouchesForbiddenPath
    /\ config[1].onForbidden = "prompt"
    /\ toolResult[1].isError
    /\ toolResult[1].forceHint

\* The visibility gate was passed or is not configured, and the handler is
\* beyond it.
GatePassed ==
    /\ config # <<>>
    /\ pc \notin {"preAction", "isGitRepository", "hasCommits", "loadConfig",
                   "checkVisibility"}
    /\ \/ config[1].allowedVisibility = <<>>
       \/ config[1].allowedVisibility[1] = <<>>
       \/ /\ GhAnswered
          /\ ActualVisibility \in Range(config[1].allowedVisibility[1])

\* The handler is over.
Finished ==
    pc \in {"finally", "exited", "returned"}

\* C12: with the force flag set and the visibility gate passed or not
\* configured, checkPush is never invoked (neither is the prompt) and the flow
\* ends in the dry-run report (dry run) or in execPush (otherwise).
C12_ForceSkipsCheckPush ==
    (surface \in {"push", "mcp"} /\ force)
        => /\ ~Invoked("checkPush")
           /\ ~Invoked("promptConfirm")
           /\ pc \notin {"checkPush", "verdict", "promptConfirm"}
           /\ checkResult = <<>>
           /\ facts = <<>>
           /\ (GatePassed /\ Finished)
                 => IF dryRun
                    THEN /\ ~Invoked("execPush")
                         /\ IF surface = "push"
                            THEN /\ "Dry run: would push (checks bypassed)" \in Range(printed)
                                 /\ thrown = <<ExitError(0)>>
                            ELSE toolResult =
                                   <<ToolResult(FALSE, "Dry run: would push (checks bypassed with force)")>>
                    ELSE Invoked("execPush")

\* C12 witness: a forced MCP push whose repository visibility is allowed has
\* run execPush without checkPush.
C12_Witness ==
    /\ surface = "mcp"
    /\ force
    /\ ~dryRun
    /\ GhAnswered
    /\ GatePassed
    /\ pc = "returned"
    /\ Invoked("execPush")
    /\ ~Invoked("checkPush")
    /\ pushResult # <<>>

\* A function was called on its own and has returned.
Returned(fn) ==
    /\ surface = "function"
    /\ call # <<>>
    /\ call[1].fn = fn
    /\ returned # <<>>

\* The number of entries of list equal to x.
Count(list, x) ==
    Cardinality({i \in 1..Len(list) : list[i] = x})

\* Some argument is not a flag: it is empty or its first character is not "-".
HasNonFlag(args) ==
    \E i \in 1..Len(args) : args[i] = <<>> \/ args[i][1] # "-"

WantsUpstream(args) ==
    \E i \in 1..Len(args) : args[i] \in {FlagU, FlagSetUpstream}

\* C13: the argument list execPush hands to git is "push" followed by the
\* caller's arguments unchanged when some argument does not start with "-";
\* otherwise it is push, "-u" exactly once iff the branch is new or the caller
\* passed -u / --set-upstream, the remote, the current branch, and the caller's
\* arguments without -u and --set-upstream in their original order.
C13_PushArgs ==
    (Returned("execPush") /\ ~returned[1].threw)
        => LET args == call[1].args
               out == returned[1].pushArgs
               isNew == ~call[1].refExists
               upstream == isNew \/ WantsUpstream(args)
               k == IF upstream THEN 2 ELSE 1
               tail == SubSeq(out, k + 3, Len(out))
           IN  IF HasNonFlag(args)
               THEN out = <<PushVerb>> \o args
               ELSE /\ out[1] = PushVerb
                    /\ upstream => out[2] = FlagU
                    /\ Count(out, FlagU) = (IF upstream THEN 1 ELSE 0)
                    /\ Count(out, FlagSetUpstream) = 0
                    /\ out[k + 1] = Origin
                    /\ out[k + 2] = BranchFeat
                    /\ Len(tail) = Len(args) - Count(args, FlagU) - Count(args, FlagSetUpstream)
                    /\ \A i \in 1..Len(tail) : tail[i] \notin {FlagU, FlagSetUpstream}
                    /\ tail = SelectSeq(args, LAMBDA a : a \notin {FlagU, FlagSetUpstream})

\* C13 witness: on an existing branch, --set-upstream --no-verify -u became
\* push -u origin <branch> --no-verify.
C13_Witness ==
    /\ Returned("execPush")
    /\ ~returned[1].threw
    /\ call[1].refExists
    /\ call[1].args = <<FlagSetUpstream, FlagNoVerify, FlagU>>
    /\ returned[1].pushArgs = <<PushVerb, FlagU, Origin, BranchFeat, FlagNoVerify>>

\* C14: execPush never throws: for every argument list and every failure of
\* an underlying git process it returns a result, with success = FALSE when a
\* process failed.
C14_ExecPushNeverThrows ==
    Returned("execPush")
        => /\ ~returned[1].threw
           /\ returned[1].result # <<>>
           /\ ~(call[1].proc.spawned /\ call[1].proc.exitCode = 0)
                 => ~returned[1].result[1].success

\* The entries of a list of strings, one after the other.
RECURSIVE Flatten(_)
Flatten(list) ==
    IF list = <<>> THEN <<>> ELSE Head(list) \o Flatten(Tail(list))

\* C15: getDiffFiles diffs against origin/<branch> when the branch exists on
\* the remote; for a new branch against origin/main if it exists, else
\* origin/master if it exists, else it runs no diff and returns the empty
\* list; the returned list has no empty entry (its entries are the output's
\* non-empty lines, in order).
C15_DiffBase ==
    Returned("getDiffFiles")
        => LET r == returned[1]
               c == call[1]
           IN  /\ r.baseBranch =
                     (IF ~c.isNew THEN "origin/<branch>"
                      ELSE IF c.hasMain THEN "origin/main"
                      ELSE IF c.hasMaster THEN "origin/master"
                      ELSE "")
               /\ r.baseBranch = "" => r.files = <<>>
               /\ \A i \in 1..Len(r.files) :
                     /\ r.files[i] # <<>>
                     /\ "\n" \notin Range(r.files[i])
               /\ r.baseBranch # ""
                     => /\ Flatten(r.files) = SelectSeq(c.stdout, LAMBDA ch : ch # "\n")
                        /\ Len(r.files) <= Count(c.stdout, "\n") + 1

\* C15 witness: a new branch with both origin/main and origin/master, whose
\* diff output has a blank line, is diffed against origin/main and yields two
\* names.
C15_Witness ==
    /\ Returned("getDiffFiles")
    /\ call[1].isNew
    /\ call[1].hasMain
    /\ call[1].hasMaster
    /\ call[1].stdout = Github2X \o <<"\n", "\n">> \o ASecret \o <<"\n">>
    /\ returned[1].baseBranch = "origin/main"
    /\ returned[1].files = <<Github2X, ASecret>>

\* C16: getLocalEmail returns SAFE_PUSH_EMAIL whenever it is set to a
\* non-empty string, without querying git; only when it is unset or empty
\* does it return git config user.email.
C16_EnvEmailFirst ==
    Returned("getLocalEmail")
        => LET env == call[1].env
               git == call[1].git
               r == returned[1]
               override == env # <<>> /\ Len(env[1]) > 0
           IN  /\ override => /\ ~r.threw
                              /\ r.value = env[1]
                              /\ ~r.queriedGit
               /\ ~override => /\ r.queriedGit
                               /\ git # <<>> => (~r.threw /\ r.value = git[1])
                               /\ git = <<>> => r.threw

\* C16 witness: SAFE_PUSH_EMAIL and git config user.email are both set and
\* differ; the environment's value is returned and git is not asked.
C16_Witness ==
    /\ Returned("getLocalEmail")
    /\ call[1].env = <<AuthorB>>
    /\ call[1].git = <<AuthorA>>
    /\ returned[1].value = AuthorB
    /\ ~returned[1].queriedGit

\* The git process of a probe call ended with exit code 0.
ProcessSucceeded(proc) ==
    proc.spawned /\ proc.exitCode = 0

\* C17: isGitRepository and hasCommits return TRUE when the git process
\* succeeds and FALSE for every failure of it (non-zero exit, spawn failure);
\* they return a boolean in every case.
C17_ProbesNeverRaise ==
    (Returned("isGitRepository") \/ Returned("hasCommits"))
        => /\ returned[1].value \in BOOLEAN
           /\ returned[1].value <=> ProcessSucceeded(call[1].proc)

\* C17 witness: isGitRepository returned FALSE for a git that could not be
\* spawned.
C17_Witness ==
    /\ Returned("isGitRepository")
    /\ ~call[1].proc.spawned
    /\ returned[1].value = FALSE

\* C18: isNewBranch never raises: for every outcome of the git processes it
\* runs it returns a boolean, TRUE when the remote ref is absent and FALSE
\* when it exists.
C18_IsNewBranchNeverThrows ==
    Returned("isNewBranch")
        => /\ ~returned[1].threw
           /\ returned[1].value \in {<<TRUE>>, <<FALSE>>}
           /\ returned[1].value = <<~ProcessSucceeded(call[1].refQuery)>>

\* The pattern ends in "/".
IsDirPattern(pattern) ==
    Len(pattern) >= 1 /\ pattern[Len(pattern)] = "/"

\* The path is the directory itself or lies under it: it equals the pattern
\* without its trailing slash, or begins with the whole pattern.
UnderDirectory(path, pattern) ==
    \/ /\ Len(path) = Len(pattern) - 1
       /\ \A i \in 1..Len(path) : path[i] = pattern[i]
    \/ /\ Len(path) >= Len(pattern)
       /\ \A i \in 1..Len(pattern) : path[i] = pattern[i]

\* The outcome of matchesForbiddenPath for a one-pattern list.
Matched(path, pattern) ==
    /\ Returned("matchesForbiddenPath")
    /\ call[1].filePath = path
    /\ call[1].forbiddenPaths = <<pattern>>
    /\ returned[1].value

NotMatched(path, pattern) ==
    /\ Returned("matchesForbiddenPath")
    /\ call[1].filePath = path
    /\ call[1].forbiddenPaths = <<pattern>>
    /\ ~returned[1].value

\* C19: for patterns ending in "/", matchesForbiddenPath is true iff the path
\* equals some pattern without its trailing slash or starts with the pattern;
\* ".github/" matches ".github/workflows/ci.yml" and ".github", not
\* ".github2/x", and letter case counts.
C19_DirectoryPattern ==
    (Returned("matchesForbiddenPath")
       /\ \A j \in 1..Len(call[1].forbiddenPaths) : IsDirPattern(call[1].forbiddenPaths[j]))
        => /\ returned[1].value
                 <=> \E j \in 1..Len(call[1].forbiddenPaths) :
                        UnderDirectory(call[1].filePath, call[1].forbiddenPaths[j])
           /\ ~NotMatched(CiYml, GithubDir)
           /\ ~NotMatched(GithubName, GithubDir)
           /\ ~Matched(Github2X, GithubDir)
           /\ ~Matched(GithubUpperX, GithubDir)

\* C19 witness: ".github2/x" was tested against ".github/" and did not match.
C19_Witness ==
    NotMatched(Github2X, GithubDir)

\* The glob matches the whole string: "*" any run of characters, "?" exactly
\* one character, any other character itself.
RECURSIVE GlobMatches(_, _)
GlobMatches(glob, str) ==
    IF glob = <<>> THEN str = <<>>
    ELSE IF glob[1] = "*"
    THEN \E k \in 0..Len(str) : GlobMatches(Tail(glob), SubSeq(str, k + 1, Len(str)))
    ELSE /\ str # <<>>
         /\ glob[1] = "?" \/ glob[1] = str[1]
         /\ GlobMatches(Tail(glob), Tail(str))

\* C20: for patterns not ending in "/", matchesForbiddenPath is true iff some
\* pattern matches the whole path as a glob ("*" any run of characters, "/"
\* included, "?" exactly one character, every other character itself);
\* "*.secret" matches "a.secret" and "dir/b.secret", not "a.secret.bak".
C20_GlobPattern ==
    (Returned("matchesForbiddenPath")
       /\ \A j \in 1..Len(call[1].forbiddenPaths) : ~IsDirPattern(call[1].forbiddenPaths[j]))
        => /\ returned[1].value
                 <=> \E j \in 1..Len(call[1].forbiddenPaths) :
                        GlobMatches(call[1].forbiddenPaths[j], call[1].filePath)
           /\ ~NotMatched(ASecret, SecretGlob)
           /\ ~NotMatched(DirBSecret, SecretGlob)
           /\ ~Matched(ASecretBak, SecretGlob)

\* C20 witness: "a.secret.bak" was tested against "*.secret" and did not
\* match.
C20_Witness ==
    NotMatched(ASecretBak, SecretGlob)


\* The pattern, taken alone, covers the path: as a directory when it ends in
\* "/", as a whole-path glob otherwise.
PatternCovers(path, pattern) ==
    IF IsDirPattern(pattern) THEN UnderDirectory(path, pattern)
    ELSE GlobMatches(pattern, path)

\* C21: matchesForbiddenPath is the OR over the patterns of the list, so its
\* result depends only on which patterns occur in the list, not on their order
\* or on how often each occurs; with an empty list no path matches and
\* checkPush reports no forbidden changes.
C21_AnyPatternAnyOrder ==
    /\ Returned("matchesForbiddenPath")
          => /\ returned[1].value
                   <=> \E p \in Range(call[1].forbiddenPaths) :
                          PatternCovers(call[1].filePath, p)
             /\ call[1].forbiddenPaths = <<>> => ~returned[1].value
    /\ (Returned("checkPush") /\ ~returned[1].threw
           /\ call[1].config.forbiddenPaths = <<>>)
          => /\ ~returned[1].result[1].details.hasForbiddenChanges
             /\ returned[1].result[1].details.forbiddenFiles = <<>>

\* C21 witness: "a.secret" was tested against the list <<".github/",
\* "*.secret">>, where only the second pattern covers it, and matched.
C21_Witness ==
    /\ Returned("matchesForbiddenPath")
    /\ call[1].filePath = ASecret
    /\ call[1].forbiddenPaths = <<GithubDir, SecretGlob>>
    /\ returned[1].value


\* The files of the list covered by some pattern, in the list's order.
CoveredFiles(files, patterns) ==
    SelectSeq(files, LAMBDA f : \E p \in Range(patterns) : PatternCovers(f, p))

\* C22: every CheckResult the check command prints or the push command uses
\* is consistent: forbiddenFiles is the subsequence of the changed files that
\* match a forbidden pattern, in their order; hasForbiddenChanges iff that
\* list is non-empty; isOwnLastCommit iff the two emails are equal up to
\* letter case; and allowed = (no forbidden changes) and (new branch or own
\* last commit) and (visibilityAllowed is not false).
C22_CheckResultConsistent ==
    checkResult # <<>>
        => LET d == checkResult[1].details
           IN  /\ d.forbiddenFiles = CoveredFiles(facts[1].diffFiles, config[1].forbiddenPaths)
               /\ d.hasForbiddenChanges <=> d.forbiddenFiles # <<>>
               /\ d.isNewBranch = facts[1].isNewBranch
               /\ d.authorEmail = facts[1].authorEmail
               /\ d.localEmail = facts[1].localEmail
               /\ d.isOwnLastCommit <=> EqualIgnoringCase(d.authorEmail, d.localEmail)
               /\ checkResult[1].allowed
                     <=> /\ ~d.hasForbiddenChanges
                         /\ d.isNewBranch \/ d.isOwnLastCommit
                         /\ d.visibilityAllowed # <<FALSE>>

\* C22 witness: the check command is about to print a result for a new branch
\* whose changed files a.secret, .github2/x, .github/workflows/ci.yml give
\* the forbidden files a.secret and .github/workflows/ci.yml, and whose
\* visibility query failed: visibilityAllowed is false and so is allowed.
C22_Witness ==
    /\ surface = "check"
    /\ pc = "report"
    /\ checkResult # <<>>
    /\ checkResult[1].details.isNewBranch
    /\ facts[1].diffFiles = <<ASecret, Github2X, CiYml>>
    /\ checkResult[1].details.forbiddenFiles = <<ASecret, CiYml>>
    /\ checkResult[1].details.repoVisibility = <<VisUnknown>>
    /\ checkResult[1].details.visibilityAllowed = <<FALSE>>
    /\ ~checkResult[1].allowed


\* The strings of the list written one after the other, separated by ", ".
RECURSIVE CommaSeparated(_)
CommaSeparated(list) ==
    IF list = <<>> THEN <<>>
    ELSE IF Len(list) = 1 THEN list[1]
    ELSE CommaSeparated(SubSeq(list, 1, Len(list) - 1)) \o <<",", " ">> \o list[Len(list)]

\* C23: the reason of checkPush's verdict follows the first matching rule
\* only: with forbidden changes it lists the forbidden files (and says nothing
\* about the author, even when the author differs); otherwise on a new branch
\* it says "New branch"; otherwise with an own last commit it says the last
\* commit is yours; otherwise it names the other author's email.
C23_ReasonOfFirstRule ==
    VerdictIsCheckPushs
        => LET reason == checkResult[1].reason
               own == EqualIgnoringCase(facts[1].authorEmail, facts[1].localEmail)
               forbidden == CoveredFiles(facts[1].diffFiles, config[1].forbiddenPaths)
           IN  IF forbidden # <<>>
               THEN /\ reason.text = "Forbidden files detected: "
                    /\ reason.arg = CommaSeparated(forbidden)
               ELSE IF facts[1].isNewBranch
               THEN reason = [text |-> "New branch - no restrictions", arg |-> <<>>]
               ELSE IF own
               THEN reason = [text |-> "Last commit is yours", arg |-> <<>>]
               ELSE reason = [text |-> "Last commit is by someone else",
                              arg |-> facts[1].authorEmail]

\* C23 witness: forbidden files were changed on an existing branch whose last
\* commit is by someone else, and the reason lists the two forbidden files.
C23_Witness ==
    /\ VerdictIsCheckPushs
    /\ ~facts[1].isNewBranch
    /\ ~EqualIgnoringCase(facts[1].authorEmail, facts[1].localEmail)
    /\ checkResult[1].details.forbiddenFiles = <<ASecret, CiYml>>
    /\ checkResult[1].reason.text = "Forbidden files detected: "
    /\ checkResult[1].reason.arg = ASecret \o <<",", " ">> \o CiYml


\* C24: every error that ends a CLI push or check invocation, a failed git
\* query while the facts are gathered and a malformed configuration file
\* included, reaches the top level as an ExitError.
C24_EveryFailureIsExitError ==
    (surface \in {"push", "check"} /\ pc \in {"finally", "exited"} /\ thrown # <<>>)
        => thrown[1].name = "ExitError"


\* C25: nothing carries over from one invocation of the MCP push tool to the
\* next in the same process: every invocation evaluates the directory the
\* first one evaluated (or fails to enter it as the first one did), also when
\* SAFE_PUSH_GIT_ROOT is a relative path.
C25_SameDirectoryEveryInvocation ==
    \A i \in 1..Len(evaluated) : evaluated[i] = evaluated[1]


\* The place of an operation in the handlers' order of steps.
StepRank(op) ==
    CASE op = "isGitRepository" -> 1
      [] op = "hasCommits" -> 2
      [] op = "loadConfig" -> 3
      [] op = "checkVisibility" -> 4
      [] op = "getRepoVisibility" -> 5
      [] op = "checkPush" -> 6
      [] op = "promptConfirm" -> 7
      [] op = "execPush" -> 8
      [] OTHER -> 0

\* The terminal outcomes of a push invocation: it failed or was blocked, it
\* reported a dry run, or it pushed.
TerminalOutcomes ==
    IF surface = "mcp"
    THEN {k \in {"failed", "dry run", "pushed"} :
            /\ toolResult # <<>>
            /\ \/ k = "failed" /\ toolResult[1].isError
               \/ /\ k = "dry run"
                  /\ toolResult[1].text \in {"Dry run: would push",
                                             "Dry run: would push (checks bypassed with force)"}
               \/ k = "pushed" /\ toolResult[1].text = "Push successful"}
    ELSE {k \in {"failed", "dry run", "pushed"} :
            \/ k = "failed" /\ thrown # <<>> /\ thrown # <<ExitError(0)>>
            \/ k = "dry run" /\ DryRunReported
            \/ k = "pushed" /\ "Push successful" \in Range(printed)}

Malformed ==
    configFile.exists /\ ~configFile.valid

\* C27: loadConfig falls back to the default policy (forbiddenPaths
\* <<".github/">>, onForbidden "error", no allowedVisibility) only when the
\* file does not exist; a file that exists yields its own validated content,
\* and a malformed file yields no configuration at all: loadConfig throws a
\* ConfigError carrying the file's path, and no push is executed.
C27_DefaultsOnlyWhenAbsent ==
    /\ config # <<>>
          => /\ ~Malformed
             /\ config[1] = IF configFile.exists THEN configFile.data
                             ELSE [forbiddenPaths |-> <<GithubDir>>, onForbidden |-> "error",
                                   allowedVisibility |-> <<>>, trace |-> <<>>]
    /\ Malformed
          => /\ config = <<>>
             /\ ~Invoked("execPush")
             /\ ~Invoked("checkPush")
             /\ (surface \in {"push", "check"}
                   /\ (Invoked("loadConfig") \/ "loadConfig" \in Range(hookCalls)))
                   => /\ pc \in {"finally", "exited"}
                      /\ thrown = <<[name |-> "ConfigError", exitCode |-> -1,
                                     path |-> getConfigPath]>>
             /\ (surface = "mcp" /\ Invoked("loadConfig"))
                   => /\ pc = "returned"
                      /\ toolResult = <<ToolResult(TRUE, "Unexpected error")>>

\* C27 witness: a forced CLI push with --trace (so that the handler's own
\* loadConfig is the first to read the file) found a malformed file and is
\* over with the ConfigError, without a push.
C27_Witness ==
    /\ surface = "push"
    /\ force
    /\ Malformed
    /\ Invoked("loadConfig")
    /\ pc = "exited"
    /\ thrown # <<>>
    /\ thrown[1].name = "ConfigError"
    /\ thrown[1].path = getConfigPath


\* The file `config init` writes.
DefaultConfigFile ==
    [exists |-> TRUE, valid |-> TRUE,
     data |-> [forbiddenPaths |-> <<GithubDir>>, onForbidden |-> "error",
               allowedVisibility |-> <<>>, trace |-> <<>>]]

\* C28: `safe-push config init` leaves an existing configuration file
\* unchanged and reports that it was not created; `safe-push config init -f`
\* overwrites the file with the defaults whatever it contains, a malformed
\* file included (unless the file cannot be written).
C28_InitKeepsForceOverwrites ==
    /\ []((surface = "config init" /\ pc = "exited"
             /\ "Failed to initialize config" \notin Range(printed))
            => /\ force => configFile = DefaultConfigFile
               /\ (~force /\ "Configuration file created" \notin Range(printed))
                     => "Configuration file already exists" \in Range(printed))
    /\ [][(surface = "config init" /\ ~force /\ configFile.exists)
             => configFile' = configFile]_vars


\* What an invocation found while it ran.  Each of these is a fact of the
\* invocation's inputs and environment (the repository, the configuration
\* file, gh's answer, the push process), not of the surface that found it.
FoundNoRepository ==
    probe.isGitRepository = <<FALSE>>

FoundNoCommits ==
    probe.hasCommits = <<FALSE>>

FoundGateClosed ==
    /\ Invoked("checkVisibility")
    /\ visibilityResult = <<>> \/ ~visibilityResult[1].allowed

FoundRuleBlocks ==
    /\ Invoked("checkPush")
    /\ checkResult = <<>> \/ ~checkResult[1].allowed

FoundPushFailed ==
    /\ Invoked("execPush")
    /\ pushResult = <<>> \/ ~pushResult[1].success

\* Everything the precedence rules ask for before a push was found in order:
\* a repository with commits, a configuration, an open or unconfigured
\* visibility gate, and the force flag or an allowing verdict.
FoundPushable ==
    /\ probe.isGitRepository = <<TRUE>>
    /\ probe.hasCommits = <<TRUE>>
    /\ config # <<>>
    /\ visibilityConfigured(config[1])
          => visibilityResult # <<>> /\ visibilityResult[1].allowed
    /\ force \/ (checkResult # <<>> /\ checkResult[1].allowed)

\* The invocation is over, and, in the CLI, no override prompt was answered
\* with yes.
OverWithoutOverride ==
    /\ confirmed # <<TRUE>>
    /\ IF surface = "mcp" THEN pc = "returned" ELSE surface = "push" /\ pc = "exited"

ReportedError ==
    IF surface = "mcp" THEN toolResult[1].isError ELSE exitCode = <<1>>

\* C29: the CLI push command, with every override prompt answered "no", and
\* the MCP push tool decide by the same rule over the same facts: either one
\* invokes execPush exactly when it found everything pushable and it is not a
\* dry run, stops short of execPush only for a dry run or for one of the same
\* five findings, and reports an error (exit code 1, isError) exactly when one
\* of those findings or a failed push occurred.
C29_SamePrecedenceOnBothSurfaces ==
    OverWithoutOverride
        => /\ Invoked("execPush") <=> (FoundPushable /\ ~dryRun)
           /\ ~Invoked("execPush")
                 => \/ FoundPushable /\ dryRun
                    \/ FoundNoRepository \/ FoundNoCommits \/ Malformed
                    \/ FoundGateClosed \/ FoundRuleBlocks
           /\ ReportedError
                 <=> \/ FoundNoRepository \/ FoundNoCommits \/ Malformed
                     \/ FoundGateClosed \/ FoundRuleBlocks \/ FoundPushFailed
           /\ ~ReportedError
                 <=> /\ FoundPushable
                     /\ dryRun \/ (pushResult # <<>> /\ pushResult[1].success)

\* C29 witness: the MCP tool, under onForbidden "prompt", found forbidden
\* changes (the case in which the CLI asks), returned an error and did not
\* push.
C29_Witness ==
    /\ surface = "mcp"
    /\ pc = "returned"
    /\ config # <<>>
    /\ config[1].onForbidden = "prompt"
    /\ checkResult # <<>>
    /\ checkResult[1].details.hasForbiddenChanges
    /\ toolResult[1].isError
    /\ ~Invoked("execPush")


\* C30: on every path out of parseAsync (normal return, ExitError, any other
\* error) shutdownTelemetry is awaited before the process ends, and the code
\* passed to process.exit is the ExitError's code, or 0 when nothing was
\* thrown; an error that is not an ExitError is thrown again, so process.exit
\* is not called for it.
C30_ShutdownBeforeExit ==
    surface \in {"push", "check"}
        => IF pc = "exited"
           THEN /\ Len(exitPath) = 2
                /\ exitPath[1] = "shutdownTelemetry"
                /\ ~shutdownFn
                /\ IF thrown = <<>>
                   THEN exitPath[2] = "process.exit" /\ exitCode = <<0>>
                   ELSE IF thrown[1].name = "ExitError"
                   THEN exitPath[2] = "process.exit" /\ exitCode = <<thrown[1].exitCode>>
                   ELSE exitPath[2] = "uncaught"
           ELSE exitPath = <<>> /\ exitCode = <<>>

\* C30 witness: a traced CLI invocation ended with ExitError(1): telemetry was
\* shut down, then process.exit(1) was called.
C30_Witness ==
    /\ surface \in {"push", "check"}
    /\ traceOpt
    /\ pc = "exited"
    /\ thrown = <<ExitError(1)>>
    /\ exitPath = <<"shutdownTelemetry", "process.exit">>
    /\ exitCode = <<1>>
    /\ ~shutdownFn


\* The check command holds the CheckResult it is about to print or has printed.
CheckReporting ==
    surface = "check" /\ pc \in {"report", "finally", "exited"} /\ checkResult # <<>>

\* C31: in the check command the visibility result can only block.  When the
\* visibility is not allowed (or cannot be obtained) the result becomes
\* allowed = FALSE with the visibility reason in place of the path / author
\* reason; when it is allowed, or no visibility rule is configured, allowed
\* and reason stay as checkPush gave them; details.repoVisibility and
\* details.visibilityAllowed are present iff allowedVisibility is non-empty.
C31_VisibilityOnlyBlocks ==
    /\ [](CheckReporting
            => LET d == checkResult[1].details
               IN  /\ d.repoVisibility # <<>> <=> visibilityConfigured(config[1])
                   /\ d.visibilityAllowed # <<>> <=> visibilityConfigured(config[1])
                   /\ d.visibilityAllowed = <<FALSE>>
                         => /\ ~checkResult[1].allowed
                            /\ checkResult[1].reason.text
                                  \in {"Repository visibility is not in allowed list",
                                       "Failed to check repository visibility"})
    /\ [][(surface = "check" /\ pc = "checkVisibility" /\ pc' = "report")
             => LET verdict == checkResult[1]
                    merged == checkResult'[1]
                IN  /\ ~verdict.allowed => ~merged.allowed
                    /\ merged.details.visibilityAllowed # <<FALSE>>
                          => /\ merged.allowed = verdict.allowed
                             /\ merged.reason = verdict.reason
                    /\ merged.details.visibilityAllowed = <<FALSE>>
                          => /\ ~merged.allowed
                             /\ merged.reason # verdict.reason]_vars

\* C31 witness: the check command reports a verdict blocked for a foreign last
\* commit although the repository's visibility is allowed.
C31_Witness ==
    /\ CheckReporting
    /\ checkResult[1].details.visibilityAllowed = <<TRUE>>
    /\ ~checkResult[1].allowed
    /\ checkResult[1].reason.text = "Last commit is by someone else"


\* The visibility a line of gh's output names: the line without the white
\* space around it, in lower case.
NamedVisibility(stdout) ==
    CASE stdout = GhPUBLIC -> VisPublic
      [] stdout = GhPRIVATE -> VisPrivate
      [] stdout = GhInternalLine -> VisInternal
      [] stdout = GhPaddedPrivate -> VisPrivate
      [] stdout = GhBlankLine -> <<>>
      [] stdout = GhSecretLine -> <<"s", "e", "c", "r", "e", "t">>

\* The handler's invocation was stopped by the visibility gate.
StoppedAtGate ==
    \/ "Repository visibility is not in allowed list" \in Range(printed)
    \/ "Failed to check repository visibility" \in Range(printed)
    \/ /\ toolResult # <<>>
       /\ toolResult[1].text \in {"Blocked: visibility",
                                  "Failed to check repository visibility"}

\* C32: with allowedVisibility unset or empty, checkVisibility returns null
\* without querying gh, and push, check and the MCP tool apply no visibility
\* gate; with a non-empty list the result is allowed iff the visibility gh
\* names, in lower case, is a member of the list, so that an empty or
\* unrecognised name blocks.
C32_GateOnlyWhenConfigured ==
    /\ Returned("checkVisibility")
          => LET list == call[1].allowedVisibility
                 gh == call[1].gh
                 r == returned[1]
             IN  IF list = <<>> \/ list[1] = <<>>
                 THEN r = [threw |-> FALSE, queried |-> FALSE, result |-> <<>>]
                 ELSE /\ r.queried
                      /\ r.threw <=> ~(gh.spawned /\ gh.exitCode = 0)
                      /\ ~r.threw
                            => /\ r.result # <<>>
                               /\ r.result[1].visibility = NamedVisibility(gh.stdout)
                               /\ r.result[1].allowed
                                     <=> NamedVisibility(gh.stdout) \in Range(list[1])
    /\ (surface \in {"push", "check", "mcp"} /\ config # <<>>)
          => IF visibilityConfigured(config[1])
             THEN /\ visibilityResult # <<>>
                        => /\ GhAnswered
                           /\ visibilityResult[1].allowed
                                 <=> NamedVisibility(ghProc[1].stdout)
                                        \in Range(config[1].allowedVisibility[1])
                  /\ (visibilityResult # <<>> /\ ~visibilityResult[1].allowed)
                        => IF surface = "check" THEN ~checkResult[1].allowed
                           ELSE StoppedAtGate /\ ~Invoked("execPush")
             ELSE /\ ~Invoked("checkVisibility")
                  /\ ~Invoked("getRepoVisibility")
                  /\ ghProc = <<>>
                  /\ visibilityResult = <<>>
                  /\ ~StoppedAtGate
                  /\ checkResult # <<>> => checkResult[1].details.visibilityAllowed = <<>>

\* C32 witness: checkVisibility, called with the list <<"public", "internal">>
\* while gh prints an empty line, returned a result that is not allowed.
C32_Witness ==
    /\ Returned("checkVisibility")
    /\ call[1].allowedVisibility = << <<VisPublic, VisInternal>> >>
    /\ call[1].gh.stdout = GhBlankLine
    /\ call[1].gh.exitCode = 0
    /\ call[1].gh.spawned
    /\ returned[1].result # <<>>
    /\ ~returned[1].result[1].allowed


\* C33: within one evaluation the new-branch status reported in
\* details.isNewBranch is the status getDiffFiles used to choose the diff
\* base, and the status execPush uses to decide on -u is the status of the
\* verdict that authorised the push, whatever another process does to the
\* remote-tracking ref between the adapter calls.
C33_OneStatusPerEvaluation ==
    /\ (checkResult # <<>> /\ refSeen.diffBase # <<>>)
           => checkResult[1].details.isNewBranch = refSeen.diffBase[1]
    /\ (checkResult # <<>> /\ refSeen.push # <<>>)
           => checkResult[1].details.isNewBranch = refSeen.push[1]


\* C34: on the CLI push command and on the MCP push tool, execPush is
\* reached only if the repository and commit checks passed, the visibility
\* gate passed or is not configured, dry-run is unset, and force is set, or
\* checkPush allowed the push, or (CLI only) onForbidden is "prompt", the
\* verdict has hasForbiddenChanges and promptConfirm returned true.
C34_ExecPushOnlyWhenAuthorised ==
    (surface \in {"push", "mcp"} /\ Invoked("execPush"))
        => /\ probe.isGitRepository = <<TRUE>>
           /\ probe.hasCommits = <<TRUE>>
           /\ GatePassed
           /\ ~dryRun
           /\ \/ force
              \/ checkResult # <<>> /\ checkResult[1].allowed
              \/ /\ surface = "push"
                 /\ config[1].onForbidden = "prompt"
                 /\ checkResult # <<>>
                 /\ checkResult[1].details.hasForbiddenChanges
                 /\ Invoked("promptConfirm")
                 /\ confirmed = <<TRUE>>

\* A push that only the operator's yes at the prompt authorised.
C34_Witness ==
    /\ surface = "push"
    /\ Invoked("execPush")
    /\ ~force
    /\ ~checkResult[1].allowed
    /\ confirmed = <<TRUE>>
    /\ visibilityConfigured(config[1])


\* C35: without the force flag the CLI push command never executes a push
\* on an existing branch whose last commit author differs from the local
\* identity; the confirmation prompt cannot override an authorship mismatch,
\* also when protected-path changes are present at the same time.
C35_AuthorMismatchNeverPushed ==
    (surface = "push" /\ ~force /\ Invoked("execPush"))
        => \/ checkResult[1].details.isNewBranch
           \/ checkResult[1].details.isOwnLastCommit


\* C36: execPush is invoked at most once per invocation of the push command
\* or the MCP push tool, and after it returns no further check, prompt or
\* push happens: the invocation goes straight to its terminal outcome.
C36_PushOnceThenTerminal ==
    /\ [](/\ Count(calls, "execPush") <= 1
          /\ Invoked("execPush") => (calls[Len(calls)] = "execPush" /\ Finished))
    /\ [][Invoked("execPush") => calls' = calls]_vars

\* A push that failed: the one place where a second attempt could follow.
C36_Witness ==
    /\ surface \in {"push", "mcp"}
    /\ Invoked("execPush")
    /\ pushResult # <<>>
    /\ ~pushResult[1].success
    /\ pc \in {"exited", "returned"}


\* What the repository and the policy say about a push, computed from what
\* the invocation found (the probes, the configuration, gh's answer, the
\* gathered facts) and not from what the command made of it.
RepositoryAndPolicyAllow ==
    /\ probe.isGitRepository = <<TRUE>>
    /\ probe.hasCommits = <<TRUE>>
    /\ config # <<>>
    /\ visibilityConfigured(config[1])
          => /\ GhAnswered
             /\ ActualVisibility \in Range(config[1].allowedVisibility[1])
    /\ facts # <<>>
    /\ checkPushResult(config[1], BranchFeat, facts[1].isNewBranch, facts[1].authorEmail,
                       facts[1].localEmail, facts[1].diffFiles).allowed

\* C37: for the same repository facts and policy, the check command exits
\* with code 0 if and only if the push command without force and without
\* dry-run invokes execPush without showing a prompt; whenever check exits
\* with code 1, push without force does not push unless the operator
\* confirms a prompt.
C37_CheckPredictsPush ==
    /\ (surface = "check" /\ pc = "exited")
          => /\ exitCode \in {<<0>>, <<1>>}
             /\ exitCode = <<0>> <=> RepositoryAndPolicyAllow
    /\ (surface = "push" /\ ~force /\ ~dryRun /\ pc = "exited")
          => ((Invoked("execPush") /\ ~Invoked("promptConfirm"))
                 <=> RepositoryAndPolicyAllow)
    /\ (surface = "push" /\ ~force /\ Invoked("execPush") /\ ~RepositoryAndPolicyAllow)
          => /\ Invoked("promptConfirm")
             /\ confirmed = <<TRUE>>

\* The check command reported a closed visibility gate although the path
\* and author rule allowed the push.
C37_Witness ==
    /\ surface = "check"
    /\ pc = "exited"
    /\ exitCode = <<1>>
    /\ facts # <<>>
    /\ checkPushResult(config[1], BranchFeat, facts[1].isNewBranch, facts[1].authorEmail,
                       facts[1].localEmail, facts[1].diffFiles).allowed
    /\ ~RepositoryAndPolicyAllow


\* The push command is over with exit code 0 or 1.
PushTerminal ==
    /\ pc = "exited"
    /\ exitCode \in {<<0>>, <<1>>}

\* The handler is suspended in promptConfirm, awaiting a line.
AwaitingAnswer ==
    /\ pc = "promptConfirm"
    /\ confirmed = <<>>

\* C38: if every external process call returns and, when a prompt is shown,
\* the input stream eventually delivers a line or ends, every invocation of
\* the push command eventually reaches a terminal outcome with exit code 0
\* or 1; the only unbounded wait is the override prompt, which has no
\* timeout.
C38_PushTerminates ==
    /\ WF_vars(Push_PromptConfirm) => <>PushTerminal
    /\ <>(PushTerminal \/ AwaitingAnswer)
    /\ [](pc = "exited" => exitCode \in {<<0>>, <<1>>})

\* The prompt was shown, answered, and the command came to its end.
C38_Witness ==
    /\ surface = "push"
    /\ Invoked("promptConfirm")
    /\ confirmed # <<>>
    /\ PushTerminal


\* The last request went to the MCP endpoint.
OnMcp(method) ==
    /\ response # <<>>
    /\ response[1].path = "/mcp"
    /\ response[1].method = method

\* C39: the session table of the MCP HTTP server only ever maps a session
\* id to the transport that was initialised with that id; a POST with a
\* known session id is routed to that session's transport; a POST with no
\* session id that is an initialize request creates a new transport; every
\* other POST gets 400 and creates nothing; GET and DELETE with a missing
\* or unknown id get 400; the entry of a session is gone once its transport
\* has closed, and its id is rejected from then on.
C39_SessionTable ==
    /\ \A sid \in DOMAIN transports :
          /\ connected[transports[sid]].sessionId = <<sid>>
          /\ ~connected[transports[sid]].closed
    /\ \A t \in 1..Len(connected) :
          (connected[t].closed /\ connected[t].sessionId # <<>>)
             => ~hasSession(connected[t].sessionId)
    /\ OnMcp("POST")
          => LET r == response[1]
             IN  IF r.known
                 THEN /\ r.transport # 0
                      /\ connected[r.transport].sessionId = r.sessionId
                      /\ ~r.created
                 ELSE IF r.sessionId = <<>> /\ r.body = "initialize"
                 THEN r.created /\ r.transport = Len(connected)
                 ELSE r.status = 400 /\ ~r.created /\ r.transport = 0
    /\ (OnMcp("GET") \/ OnMcp("DELETE"))
          => (~response[1].known => response[1].status = 400 /\ response[1].transport = 0)


\* The operations withSpan performed on its span, by name.
SpanOps(op) ==
    {i \in 1..Len(returned[1].span) : returned[1].span[i].op = op}

\* C40: withSpan ends its span exactly once on every path; when fn returns
\* it sets status OK and returns fn's result; when fn throws any error, the
\* ExitError with code 0 of a successful dry run included, it sets status
\* ERROR, records the exception and rethrows the same error unchanged.
C40_SpanEndsOnceStatusFollowsOutcome ==
    Returned("withSpan")
        => LET r == returned[1]
               fn == call[1].outcome
               statuses == {r.span[i].code : i \in SpanOps("setStatus")}
           IN  /\ SpanOps("end") = {Len(r.span)}
               /\ ~fn.threw
                     => /\ statuses = {"OK"}
                        /\ SpanOps("recordException") = {}
                        /\ ~r.threw
                        /\ r.value = fn.value
               /\ fn.threw
                     => /\ statuses = {"ERROR"}
                        /\ Cardinality(SpanOps("recordException")) = 1
                        /\ fn.isError
                              => \A i \in SpanOps("recordException") :
                                    r.span[i].arg = fn.value
                        /\ r.threw
                        /\ r.value = fn.value

\* withSpan ran a dry run that ended with ExitError(0).
C40_Witness ==
    /\ Returned("withSpan")
    /\ call[1].outcome.threw
    /\ call[1].outcome.value = <<ExitError(0)>>
    /\ returned[1].threw

=============================================================================
